---- MODULE Spec2Model ----
(***************************************************************************)
(* vitest-testdirs: the file-tree materializer (createFileTree), the       *)
(* filesystem snapshotter (fromFileSystem) and the fixture lifecycle       *)
(* (testdir) over a model of the POSIX filesystem calls they make.         *)
(*                                                                         *)
(* A name is a sequence of characters.  A path string is a record          *)
(* [abs, segs]: abs says whether the string starts with the separator,     *)
(* segs are the names between separators, in order ("." and ".." included  *)
(* until normalize/resolve removes them).  The disk is keyed by the        *)
(* segments of absolute, symlink-free paths.                               *)
(***************************************************************************)
EXTENDS Integers, Sequences, FiniteSets, TLC

VARIABLES disk, curTest, curSuite, hooks, last, calls, currentTestOptions, collected

vars == <<disk, curTest, curSuite, hooks, last, calls, currentTestOptions, collected>>

(***************************************************************************)
(* Bounds of the model.                                                    *)
(***************************************************************************)
MaxCalls == 2

MaxHops == 3

\* const x = <value>; <rest>: the rest of a function body run with x bound
With(x, F(_)) == F(x)

(***************************************************************************)
(* node:path (posix)                                                       *)
(***************************************************************************)
Rel(segs) == [abs |-> FALSE, segs |-> segs]

Abs(segs) == [abs |-> TRUE, segs |-> segs]

Dot == <<".">>

DotDot == <<".", ".">>

\* process.cwd()
CWD == << <<"w">> >>

Front(s) == SubSeq(s, 1, Len(s) - 1)

Last(s) == s[Len(s)]

RECURSIVE NormSegs(_, _, _)
NormSegs(segs, acc, abs) ==
  IF segs = <<>> THEN acc
  ELSE LET s == Head(segs)
           acc2 == IF s = Dot THEN acc
                   ELSE IF s = DotDot
                        THEN IF acc /= <<>> /\ Last(acc) /= DotDot THEN Front(acc)
                             ELSE IF abs THEN acc
                             ELSE Append(acc, DotDot)
                        ELSE Append(acc, s)
       IN NormSegs(Tail(segs), acc2, abs)

normalize(p) == [abs |-> p.abs, segs |-> NormSegs(p.segs, <<>>, p.abs)]

join(a, b) == normalize([abs |-> a.abs, segs |-> a.segs \o b.segs])

resolve(from, to) ==
  IF to.abs THEN Abs(NormSegs(to.segs, <<>>, TRUE))
  ELSE IF from.abs THEN Abs(NormSegs(from.segs \o to.segs, <<>>, TRUE))
  ELSE Abs(NormSegs(CWD \o from.segs \o to.segs, <<>>, TRUE))

dirname(p) == [abs |-> p.abs, segs |-> IF p.segs = <<>> THEN <<>> ELSE Front(p.segs)]

RECURSIVE CommonLen(_, _)
CommonLen(a, b) ==
  IF a = <<>> \/ b = <<>> \/ Head(a) /= Head(b) THEN 0
  ELSE 1 + CommonLen(Tail(a), Tail(b))

\* relative(from, to) of two absolute paths
relative(from, to) ==
  LET c == CommonLen(from.segs, to.segs)
  IN Rel([i \in 1..(Len(from.segs) - c) |-> DotDot]
         \o SubSeq(to.segs, c + 1, Len(to.segs)))

IsPrefix(a, b) == Len(a) <= Len(b) /\ SubSeq(b, 1, Len(a)) = a

(***************************************************************************)
(* The disk: tree maps the segments of an absolute path to its node,       *)
(* inodes holds the content and mode of every regular file (hard links     *)
(* share an inode).                                                        *)
(***************************************************************************)
DirNode(mode) == [kind |-> "dir", mode |-> mode]

FileNode(ino) == [kind |-> "file", ino |-> ino]

SymlinkNode(target, type) == [kind |-> "symlink", target |-> target, type |-> type]

\* 0o755, 0o644, 0o555, 0o444 and "no mode given"
ModeRWX == 7 * 64 + 5 * 8 + 5

ModeRW == 6 * 64 + 4 * 8 + 4

ModeRX == 5 * 64 + 5 * 8 + 5

ModeR == 4 * 64 + 4 * 8 + 4

NoMode == 0 - 1

\* owner write bit (0o200)
Writable(mode) == (mode \div 128) % 2 = 1

Put(tree, p, node) == [q \in DOMAIN tree \cup {p} |-> IF q = p THEN node ELSE tree[q]]

IsDirAt(tree, p) == p \in DOMAIN tree /\ tree[p].kind = "dir"

\* Path resolution as the kernel does it: one component at a time, a
\* symbolic link is replaced by its target (at most MaxHops times, then
\* ELOOP); the last component is followed only when followLast.
RECURSIVE Walk(_, _, _, _, _)
Walk(tree, cur, rest, followLast, fuel) ==
  IF rest = <<>> THEN [err |-> "", p |-> cur]
  ELSE LET s == Head(rest)
           tl == Tail(rest)
           nxt == Append(cur, s)
       IN IF s = Dot THEN Walk(tree, cur, tl, followLast, fuel)
          ELSE IF s = DotDot
            THEN Walk(tree, IF cur = <<>> THEN cur ELSE Front(cur), tl, followLast, fuel)
          ELSE IF nxt \notin DOMAIN tree
            THEN IF \E i \in 1..Len(tl) : tl[i] \in {Dot, DotDot}
                 THEN [err |-> "ENOENT", p |-> nxt]
                 ELSE [err |-> "", p |-> nxt \o tl]
          ELSE IF tree[nxt].kind = "symlink" /\ (tl /= <<>> \/ followLast)
            THEN IF fuel = 0 THEN [err |-> "ELOOP", p |-> nxt]
                 ELSE Walk(tree, IF tree[nxt].target.abs THEN <<>> ELSE cur,
                           tree[nxt].target.segs \o tl, followLast, fuel - 1)
          ELSE IF tree[nxt].kind = "file" /\ tl /= <<>>
            THEN [err |-> "ENOTDIR", p |-> nxt]
          ELSE Walk(tree, nxt, tl, followLast, fuel)

RealPath(tree, p, followLast) == Walk(tree, <<>>, p, followLast, MaxHops)

\* error of creating a new entry at the real path rp ("" when allowed)
CreateErr(tree, rp) ==
  IF rp = <<>> THEN "EEXIST"
  ELSE IF Front(rp) \notin DOMAIN tree THEN "ENOENT"
  ELSE IF tree[Front(rp)].kind /= "dir" THEN "ENOTDIR"
  ELSE IF ~Writable(tree[Front(rp)].mode) THEN "EACCES"
  ELSE ""

RECURSIVE ExistingLen(_, _)
ExistingLen(tree, rp) ==
  IF rp \in DOMAIN tree THEN Len(rp) ELSE ExistingLen(tree, Front(rp))

\* fs.mkdir(p, { recursive: true, mode }): every missing directory is made
\* with the same mode, the topmost first; an existing directory is left as
\* it is.
Mkdir(d, p, mode) ==
  LET w == RealPath(d.tree, p, TRUE)
      rp == w.p
      k == ExistingLen(d.tree, rp)
      m == IF mode = NoMode THEN ModeRWX ELSE mode
      top == SubSeq(rp, 1, k)
      made == IF Writable(m) THEN Len(rp) ELSE k + 1
      tree2 == [q \in DOMAIN d.tree \cup {SubSeq(rp, 1, i) : i \in (k + 1)..made} |->
                  IF q \in DOMAIN d.tree THEN d.tree[q] ELSE DirNode(m)]
  IN IF w.err /= "" THEN [disk |-> d, err |-> w.err]
     ELSE IF rp \in DOMAIN d.tree
       THEN [disk |-> d, err |-> IF d.tree[rp].kind = "dir" THEN "" ELSE "EEXIST"]
     ELSE IF d.tree[top].kind /= "dir" THEN [disk |-> d, err |-> "ENOTDIR"]
     ELSE IF ~Writable(d.tree[top].mode) THEN [disk |-> d, err |-> "EACCES"]
     ELSE [disk |-> [d EXCEPT !.tree = tree2],
           err |-> IF made = Len(rp) THEN "" ELSE "EACCES"]

\* fs.writeFile(p, bytes, { mode }) with the default flag "w"
WriteFile(d, p, bytes, mode) ==
  LET w == RealPath(d.tree, p, TRUE)
      rp == w.p
      ino == Len(d.inodes) + 1
      m == IF mode = NoMode THEN ModeRW ELSE mode
  IN IF w.err /= "" THEN [disk |-> d, err |-> w.err]
     ELSE IF rp \in DOMAIN d.tree
       THEN IF d.tree[rp].kind = "dir" THEN [disk |-> d, err |-> "EISDIR"]
            ELSE IF ~Writable(d.inodes[d.tree[rp].ino].mode)
              THEN [disk |-> d, err |-> "EACCES"]
            ELSE [disk |-> [d EXCEPT !.inodes[d.tree[rp].ino].data = bytes], err |-> ""]
     ELSE IF CreateErr(d.tree, rp) /= "" THEN [disk |-> d, err |-> CreateErr(d.tree, rp)]
     ELSE [disk |-> [tree |-> Put(d.tree, rp, FileNode(ino)),
                     inodes |-> Append(d.inodes, [data |-> bytes, mode |-> m])],
           err |-> ""]

\* fs.link(existingPath, newPath)
Link(d, existing, new) ==
  LET we == RealPath(d.tree, existing, FALSE)
      wn == RealPath(d.tree, new, FALSE)
  IN IF we.err /= "" THEN [disk |-> d, err |-> we.err]
     ELSE IF we.p \notin DOMAIN d.tree THEN [disk |-> d, err |-> "ENOENT"]
     ELSE IF wn.err /= "" THEN [disk |-> d, err |-> wn.err]
     ELSE IF d.tree[we.p].kind = "dir" THEN [disk |-> d, err |-> "EPERM"]
     ELSE IF wn.p \in DOMAIN d.tree THEN [disk |-> d, err |-> "EEXIST"]
     ELSE IF CreateErr(d.tree, wn.p) /= "" THEN [disk |-> d, err |-> CreateErr(d.tree, wn.p)]
     ELSE [disk |-> [d EXCEPT !.tree = Put(d.tree, wn.p, d.tree[we.p])], err |-> ""]

\* fs.symlink(target, p, type)
Symlink(d, target, p, type) ==
  LET wn == RealPath(d.tree, p, FALSE)
  IN IF wn.err /= "" THEN [disk |-> d, err |-> wn.err]
     ELSE IF wn.p \in DOMAIN d.tree THEN [disk |-> d, err |-> "EEXIST"]
     ELSE IF CreateErr(d.tree, wn.p) /= "" THEN [disk |-> d, err |-> CreateErr(d.tree, wn.p)]
     ELSE [disk |-> [d EXCEPT !.tree = Put(d.tree, wn.p, SymlinkNode(target, type))],
           err |-> ""]

\* fs.stat(p): follows symbolic links
Stat(d, p) ==
  LET w == RealPath(d.tree, p, TRUE)
  IN IF w.err /= "" THEN [err |-> w.err, kind |-> "none", p |-> w.p]
     ELSE IF w.p \notin DOMAIN d.tree THEN [err |-> "ENOENT", kind |-> "none", p |-> w.p]
     ELSE [err |-> "", kind |-> d.tree[w.p].kind, p |-> w.p]

\* fs.rm(p, { recursive, force })
Rm(d, p, recursive, force) ==
  LET w == RealPath(d.tree, p, FALSE)
      rp == w.p
      victims == {q \in DOMAIN d.tree : IsPrefix(rp, q)}
  IN IF w.err = "" /\ rp \notin DOMAIN d.tree
       THEN [disk |-> d, err |-> IF force THEN "" ELSE "ENOENT"]
     ELSE IF w.err /= "" THEN [disk |-> d, err |-> IF force /\ w.err = "ENOENT" THEN "" ELSE w.err]
     ELSE IF d.tree[rp].kind = "dir" /\ ~recursive THEN [disk |-> d, err |-> "EISDIR"]
     ELSE IF rp = <<>> \/ \E q \in victims : ~Writable(d.tree[Front(q)].mode)
       THEN [disk |-> d, err |-> "EACCES"]
     ELSE [disk |-> [d EXCEPT !.tree = [q \in DOMAIN d.tree \ victims |-> d.tree[q]]],
           err |-> ""]

(***************************************************************************)
(* Text and bytes.  A string is a sequence of characters, file content a   *)
(* sequence of bytes; U+FFFD is written as EF BF BD in UTF-8, and decoding *)
(* puts it in place of a byte that is not valid UTF-8.                     *)
(***************************************************************************)
\* the printable ASCII characters, code 32 first (the double quote, the
\* backslash and the backtick by name)
Ascii ==
  <<" ", "!", "QUOTE", "#", "$", "%", "&", "'", "(", ")", "*", "+", ",", "-", ".", "/",
    "0", "1", "2", "3", "4", "5", "6", "7", "8", "9", ":", ";", "<", "=", ">", "?",
    "@", "A", "B", "C", "D", "E", "F", "G", "H", "I", "J", "K", "L", "M", "N", "O",
    "P", "Q", "R", "S", "T", "U", "V", "W", "X", "Y", "Z", "[", "BACKSLASH", "]", "^", "_",
    "BACKTICK", "a", "b", "c", "d", "e", "f", "g", "h", "i", "j", "k", "l", "m", "n", "o",
    "p", "q", "r", "s", "t", "u", "v", "w", "x", "y", "z", "{", "|", "}", "~">>

ReplacementChar == "U+FFFD"

CharCode(c) == 31 + (CHOOSE i \in 1..Len(Ascii) : Ascii[i] = c)

RECURSIVE Utf8Encode(_)
Utf8Encode(chars) ==
  IF chars = <<>> THEN <<>>
  ELSE (IF Head(chars) = ReplacementChar THEN <<239, 191, 189>>
        ELSE <<CharCode(Head(chars))>>)
       \o Utf8Encode(Tail(chars))

RECURSIVE Utf8Decode(_)
Utf8Decode(bytes) ==
  IF bytes = <<>> THEN <<>>
  ELSE IF Len(bytes) >= 3 /\ SubSeq(bytes, 1, 3) = <<239, 191, 189>>
    THEN <<ReplacementChar>> \o Utf8Decode(SubSeq(bytes, 4, Len(bytes)))
  ELSE <<IF Head(bytes) >= 32 /\ Head(bytes) < 127 THEN Ascii[Head(bytes) - 31]
         ELSE ReplacementChar>>
       \o Utf8Decode(Tail(bytes))

(***************************************************************************)
(* Reading the disk                                                        *)
(***************************************************************************)
\* the path the kernel walks: a relative one starts at process.cwd()
FsPath(path) == IF path.abs THEN path.segs ELSE CWD \o path.segs

\* the order of the names in a directory listing: by character codes
RECURSIVE NameLeq(_, _)
NameLeq(a, b) ==
  IF a = <<>> THEN TRUE
  ELSE IF b = <<>> THEN FALSE
  ELSE IF Head(a) = Head(b) THEN NameLeq(Tail(a), Tail(b))
  ELSE CharCode(Head(a)) < CharCode(Head(b))

RECURSIVE SortNames(_)
SortNames(names) ==
  IF names = {} THEN <<>>
  ELSE LET m == CHOOSE x \in names : \A y \in names : NameLeq(x, y)
       IN <<m>> \o SortNames(names \ {m})

\* the listing with the kind of what an entry points to
ReadDirFollowing(d, p) ==
  LET w == RealPath(d.tree, p, TRUE)
      names == {q[Len(q)] : q \in {x \in DOMAIN d.tree : Len(x) = Len(w.p) + 1 /\ IsPrefix(w.p, x)}}
      sorted == SortNames(names)
  IN IF w.err /= "" THEN [err |-> w.err, ents |-> <<>>]
     ELSE IF w.p \notin DOMAIN d.tree THEN [err |-> "ENOENT", ents |-> <<>>]
     ELSE IF d.tree[w.p].kind /= "dir" THEN [err |-> "ENOTDIR", ents |-> <<>>]
     ELSE [err |-> "",
           ents |-> [i \in 1..Len(sorted) |->
                       [name |-> sorted[i],
                        kind |-> IF Stat(d, Append(w.p, sorted[i])).err = ""
                                 THEN Stat(d, Append(w.p, sorted[i])).kind
                                 ELSE d.tree[Append(w.p, sorted[i])].kind]]]

\* fs.readdir(p, { withFileTypes: true }): the names with the kind of the
\* entry itself (a symbolic link is a symbolic link, whatever it points to)
ReadDir(d, p) ==
  LET w == RealPath(d.tree, p, TRUE)
      names == {q[Len(q)] : q \in {x \in DOMAIN d.tree : Len(x) = Len(w.p) + 1 /\ IsPrefix(w.p, x)}}
      sorted == SortNames(names)
  IN IF w.err /= "" THEN [err |-> w.err, ents |-> <<>>]
     ELSE IF w.p \notin DOMAIN d.tree THEN [err |-> "ENOENT", ents |-> <<>>]
     ELSE IF d.tree[w.p].kind /= "dir" THEN [err |-> "ENOTDIR", ents |-> <<>>]
     ELSE [err |-> "",
           ents |-> [i \in 1..Len(sorted) |->
                       [name |-> sorted[i], kind |-> d.tree[Append(w.p, sorted[i])].kind]]]

\* fs.readFile(p): follows symbolic links
ReadFile(d, p) ==
  LET w == RealPath(d.tree, p, TRUE)
  IN IF w.err /= "" THEN [err |-> w.err, data |-> <<>>]
     ELSE IF w.p \notin DOMAIN d.tree THEN [err |-> "ENOENT", data |-> <<>>]
     ELSE IF d.tree[w.p].kind = "dir" THEN [err |-> "EISDIR", data |-> <<>>]
     ELSE [err |-> "", data |-> d.inodes[d.tree[w.p].ino].data]

\* the resolved path of the link (what fs.realpath gives)
ReadLinkResolved(d, p) ==
  [err |-> Stat(d, p).err, target |-> [abs |-> TRUE, segs |-> Stat(d, p).p]]

\* fs.readlink(p): the stored target of the link itself
ReadLink(d, p) ==
  LET w == RealPath(d.tree, p, FALSE)
  IN IF w.err /= "" THEN [err |-> w.err, target |-> Rel(<<>>)]
     ELSE IF w.p \notin DOMAIN d.tree THEN [err |-> "ENOENT", target |-> Rel(<<>>)]
     ELSE IF d.tree[w.p].kind /= "symlink" THEN [err |-> "EINVAL", target |-> Rel(<<>>)]
     ELSE [err |-> "", target |-> d.tree[w.p].target]

(***************************************************************************)
(* Fixture values (helpers.ts, types.ts)                                   *)
(***************************************************************************)
Str(chars) == [t |-> "string", v |-> chars]

Bytes(bytes) == [t |-> "bytes", v |-> bytes]

Null == [t |-> "null", v |-> <<>>]

\* the other primitives: Prim("number", 42), Prim("bigint", 10),
\* Prim("boolean", TRUE), Prim("undefined", <<>>); an array is
\* Prim("array", <<>>)
Prim(t, v) == [t |-> t, v |-> v]

\* a DirectoryJSON: its own string keys in insertion order and, when the
\* snapshotter made it, the value under FIXTURE_ORIGINAL_PATH_SYMBOL
Dir(entries) == [t |-> "dir", entries |-> entries, orig |-> <<>>]

\* the mapping without the value under FIXTURE_ORIGINAL_PATH_SYMBOL
DirFromNowhere(entries, orig) == [t |-> "dir", entries |-> entries, orig |-> <<>>]

DirFrom(entries, orig) == [t |-> "dir", entries |-> entries, orig |-> <<orig>>]

E(key, val) == [key |-> key, val |-> val]

K(name) == Rel(<<name>>)

symlink(path) == [t |-> "symlink", path |-> normalize(path)]

\* typeof value === "object" && value !== null && value[SYMBOL] === SYMBOL;
\* [t |-> "object", tags |-> T, path |-> p] is an object a caller wrote
\* that holds, for each tag of T, the exported symbol under itself
isSymlink(value) ==
  /\ value.t \notin {"string", "number", "boolean", "undefined", "bigint", "symbol"}
  /\ value.t /= "null"
  /\ (value.t = "symlink" \/ (value.t = "object" /\ "symlink" \in value.tags))

link(path) == [t |-> "link", path |-> normalize(path)]

isLink(value) ==
  /\ value.t \notin {"string", "number", "boolean", "undefined", "bigint", "symbol"}
  /\ value.t /= "null"
  /\ (value.t = "link" \/ (value.t = "object" /\ "link" \in value.tags))

metadata(content, meta) == [t |-> "meta", content |-> content, meta |-> meta]

\* ... && value[FIXTURE_METADATA_SYMBOL] != null
hasMetadata(value) ==
  /\ value.t \notin {"string", "number", "boolean", "undefined", "bigint", "symbol"}
  /\ value.t /= "null"
  /\ (value.t = "meta" \/ (value.t = "object" /\ "meta" \in value.tags))

isPrimitive(data) ==
  data.t \in {"string", "number", "boolean", "null", "undefined", "bigint", "symbol", "bytes"}

(***************************************************************************)
(* for (let filename in files): the integer-like keys first, in ascending  *)
(* numeric order, then the other string keys in insertion order.           *)
(***************************************************************************)
Digits == <<"0", "1", "2", "3", "4", "5", "6", "7", "8", "9">>

IsDigit(c) == \E i \in 1..10 : Digits[i] = c

DigitOf(c) == (CHOOSE i \in 1..10 : Digits[i] = c) - 1

RECURSIVE Decimal(_)
Decimal(name) ==
  IF name = <<>> THEN 0 ELSE 10 * Decimal(Front(name)) + DigitOf(Last(name))

\* a canonical array index: decimal digits without a leading zero
IsIntKey(key) ==
  /\ ~key.abs /\ Len(key.segs) = 1
  /\ LET name == key.segs[1]
     IN /\ name /= <<>> /\ Len(name) <= 9
        /\ \A i \in 1..Len(name) : IsDigit(name[i])
        /\ (Len(name) > 1 => name[1] /= "0")

IntOf(key) == Decimal(key.segs[1])

RECURSIVE SortInts(_, _)
SortInts(entries, idx) ==
  IF idx = {} THEN <<>>
  ELSE LET m == CHOOSE i \in idx : \A j \in idx : IntOf(entries[i].key) <= IntOf(entries[j].key)
       IN <<m>> \o SortInts(entries, idx \ {m})

\* the keys that are not integer-like only
ForInOrderNamesOnly(entries) ==
  SelectSeq([i \in 1..Len(entries) |-> i], LAMBDA i : ~IsIntKey(entries[i].key))

ForInOrder(entries) ==
  SortInts(entries, {i \in 1..Len(entries) : IsIntKey(entries[i].key)})
  \o SelectSeq([i \in 1..Len(entries) |-> i], LAMBDA i : ~IsIntKey(entries[i].key))

\* String(n) of an integer (a number or a bigint)
RECURSIVE NumberString(_)
NumberString(n) ==
  IF n < 0 THEN <<"-">> \o NumberString(0 - n)
  ELSE IF n < 10 THEN <<Digits[n + 1]>>
  ELSE Append(NumberString(n \div 10), Digits[(n % 10) + 1])

\* every primitive written as the empty string
StringOfEmpty(data) == <<>>

\* String(data) for the primitives that are not strings
StringOf(data) ==
  IF data.t = "null" THEN <<"n", "u", "l", "l">>
  ELSE IF data.t = "undefined" THEN <<"u", "n", "d", "e", "f", "i", "n", "e", "d">>
  ELSE IF data.t = "boolean" THEN (IF data.v THEN <<"t", "r", "u", "e">> ELSE <<"f", "a", "l", "s", "e">>)
  ELSE IF data.t \in {"number", "bigint"} THEN NumberString(data.v)
  ELSE data.v

(***************************************************************************)
(* createFileTree (index.ts)                                               *)
(***************************************************************************)
Op(op, p, err) ==
  [op |-> op, p |-> p, err |-> err, data |-> <<>>, from |-> <<>>,
   target |-> Rel(<<>>), type |-> "", mode |-> NoMode]

\* path.replace(`${process.cwd()}${pathSeparator}`, "")
StripCwd(path) ==
  IF path.abs /\ Len(path.segs) > Len(CWD) /\ IsPrefix(CWD, path.segs)
  THEN Rel(SubSeq(path.segs, Len(CWD) + 1, Len(path.segs)))
  ELSE path

\* str.split(/[/\\]/).filter(Boolean).length of a normalized path
Levels(p) == IF ~p.abs /\ p.segs = <<>> THEN 1 ELSE Len(p.segs)

DotDots(n) == [i \in 1..n |-> DotDot]

\* data.path.replace("../".repeat(diff), ""): the first place where diff
\* ".." segments are each followed by a separator
ReplaceDotDots(p, diff) ==
  LET hits == {i \in 1..(Len(p.segs) - diff) : SubSeq(p.segs, i, i + diff - 1) = DotDots(diff)}
      i == CHOOSE h \in hits : \A g \in hits : h <= g
  IN IF hits = {} THEN p
     ELSE [abs |-> p.abs /\ i > 1,
           segs |-> SubSeq(p.segs, 1, i - 1) \o SubSeq(p.segs, i + diff, Len(p.segs))]

\* `..${pathSeparator}`.repeat(diff) + data.path
PrependDotDots(p, diff) == Rel(DotDots(diff) \o p.segs)

Rebase(path, files, target) ==
  LET original == normalize(files.orig[1])
      tmpPath == normalize(StripCwd(path))
      pathLevels == Levels(tmpPath)
      originalLevels == Levels(original)
  IN IF files.orig = <<>> THEN target
     ELSE IF pathLevels < originalLevels
       THEN ReplaceDotDots(target, originalLevels - pathLevels)
     ELSE IF pathLevels > originalLevels
       THEN PrependDotDots(target, pathLevels - originalLevels)
     ELSE target

\* variants of the check: "it exists" in place of "it is a directory",
\* and a check that never says yes
isDirectoryIfExists(d, path) == Stat(d, FsPath(path)).err = ""

isDirectorySyncNever(d, path) == FALSE

\* isDirectory / isDirectorySync (utils.ts): any error counts as "no"
isDirectory(d, path) == Stat(d, FsPath(path)).err = "" /\ Stat(d, FsPath(path)).kind = "dir"

isDirectorySync(d, path) == Stat(d, FsPath(path)).err = "" /\ Stat(d, FsPath(path)).kind = "dir"

\* data.path = ... on the marker held by entry k (inside its wrapper, if any)
SetMarkerPath(files, k, newPath) ==
  IF hasMetadata(files.entries[k].val)
  THEN [files EXCEPT !.entries[k].val.content.path = newPath]
  ELSE [files EXCEPT !.entries[k].val.path = newPath]

\* the marker path handed to link as it is: read from process.cwd()
LinkSourceFromCwd(path, filename, data) == resolve(Rel(<<>>), data.path)

\* resolve(dirname(filename), data.path): the source of a hard link is
\* read from the directory that holds the link
LinkSource(path, filename, data) == resolve(dirname(filename), data.path)

\* the data handed to writeFile: a Uint8Array as it is, a string (or the
\* string of any other primitive) in UTF-8
FileBytes(data) ==
  IF data.t = "bytes" THEN data.v
  ELSE IF data.t = "string" THEN Utf8Encode(data.v)
  ELSE Utf8Encode(StringOf(data))

\* errors swallowed: the loop goes on after a failed call
ThrownNever(r) == FALSE

\* a rejected await (a thrown call) leaves the loop and the function
Thrown(r) == r.err /= ""

Ret(d, ops, err, files) == [disk |-> d, ops |-> ops, err |-> err, files |-> files]

\* no mode is passed to mkdir
DirModeNone(meta) == NoMode

\* ...(metadata?.mode ? { mode: metadata.mode } : {}): the mode passed to
\* mkdir for a directory entry, NoMode when none is passed
DirMode(meta) == IF meta.mode /= NoMode /\ meta.mode /= 0 THEN meta.mode ELSE NoMode

RECURSIVE createFileTree(_, _, _, _)
RECURSIVE cftLoop(_, _, _, _, _, _)
RECURSIVE cftEntry(_, _, _, _, _)

\* one pass of the loop body for the own key at position k
cftEntry(d, ops, path, files, k) ==
  LET raw == files.entries[k].val
      meta == IF hasMetadata(raw) THEN raw.meta ELSE [mode |-> NoMode]
      data == IF hasMetadata(raw) THEN raw.content ELSE raw
      filename == resolve(path, files.entries[k].key)
  IN IF isLink(data)
       THEN With(LinkSource(path, filename, data), LAMBDA from :
            With(Link(d, from.segs, filename.segs), LAMBDA r :
              Ret(r.disk,
                  Append(ops, [Op("link", filename.segs, r.err) EXCEPT !.from = from.segs]),
                  r.err, files)))
     ELSE IF isSymlink(data)
       THEN With(Rebase(path, files, data.path), LAMBDA target :
            With(IF isDirectory(d, filename) THEN "junction" ELSE "file", LAMBDA type :
            With(Symlink(d, target, filename.segs, type), LAMBDA r :
              Ret(r.disk,
                  ops \o <<Op("stat", filename.segs, Stat(d, filename.segs).err),
                           [Op("symlink", filename.segs, r.err) EXCEPT
                              !.target = target, !.type = type]>>,
                  r.err,
                  IF files.orig = <<>> THEN files ELSE SetMarkerPath(files, k, target)))))
     ELSE IF isPrimitive(data)
       THEN With(dirname(filename), LAMBDA dir :
            With(Mkdir(d, dir.segs, NoMode), LAMBDA r1 :
              IF Thrown(r1)
              THEN Ret(r1.disk, Append(ops, Op("mkdir", dir.segs, r1.err)), r1.err, files)
              ELSE With(FileBytes(data), LAMBDA bytes :
                   With(WriteFile(r1.disk, filename.segs, bytes, meta.mode), LAMBDA r2 :
                     Ret(r2.disk,
                         ops \o <<Op("mkdir", dir.segs, ""),
                                  [Op("writeFile", filename.segs, r2.err) EXCEPT
                                     !.data = bytes, !.mode = meta.mode]>>,
                         r2.err, files)))))
     ELSE With(DirMode(meta), LAMBDA mode :
          With(Mkdir(d, filename.segs, mode), LAMBDA r1 :
          With(Append(ops, [Op("mkdir", filename.segs, r1.err) EXCEPT !.mode = mode]), LAMBDA ops1 :
            IF Thrown(r1) THEN Ret(r1.disk, ops1, r1.err, files)
            ELSE With(createFileTree(r1.disk, ops1, filename, data), LAMBDA r2 :
                   Ret(r2.disk, r2.ops, r2.err,
                       IF hasMetadata(raw)
                       THEN [files EXCEPT !.entries[k].val.content = r2.files]
                       ELSE [files EXCEPT !.entries[k].val = r2.files])))))

cftLoop(d, ops, path, files, order, i) ==
  IF i > Len(order) THEN Ret(d, ops, "", files)
  ELSE With(cftEntry(d, ops, path, files, order[i]), LAMBDA r :
         IF Thrown(r) THEN r
         ELSE cftLoop(r.disk, r.ops, path, r.files, order, i + 1))

\* createFileTree(path, files) run on disk d: the disk and the mapping
\* afterwards, the filesystem calls made (appended to ops) and the error
\* it rejects with ("" when it resolves)
createFileTree(d, ops, path, files) ==
  cftLoop(d, ops, path, files, ForInOrder(files.entries), 1)

(***************************************************************************)
(* createFileTreeSync (index.ts)                                           *)
(***************************************************************************)
RECURSIVE createFileTreeSync(_, _, _, _)
RECURSIVE cftsLoop(_, _, _, _, _, _)
RECURSIVE cftsEntry(_, _, _, _, _)

\* one pass of the loop body for the own key at position k
cftsEntry(d, ops, path, files, k) ==
  LET raw == files.entries[k].val
      meta == IF hasMetadata(raw) THEN raw.meta ELSE [mode |-> NoMode]
      data == IF hasMetadata(raw) THEN raw.content ELSE raw
      filename == resolve(path, files.entries[k].key)
  IN IF isLink(data)
       THEN With(LinkSource(path, filename, data), LAMBDA from :
            With(Link(d, from.segs, filename.segs), LAMBDA r :
              Ret(r.disk,
                  Append(ops, [Op("link", filename.segs, r.err) EXCEPT !.from = from.segs]),
                  r.err, files)))
     ELSE IF isSymlink(data)
       THEN With(Rebase(path, files, data.path), LAMBDA target :
            With(IF isDirectorySync(d, filename) THEN "junction" ELSE "file", LAMBDA type :
            With(Symlink(d, target, filename.segs, type), LAMBDA r :
              Ret(r.disk,
                  ops \o <<Op("stat", filename.segs, Stat(d, filename.segs).err),
                           [Op("symlink", filename.segs, r.err) EXCEPT
                              !.target = target, !.type = type]>>,
                  r.err,
                  IF files.orig = <<>> THEN files ELSE SetMarkerPath(files, k, target)))))
     ELSE IF isPrimitive(data)
       THEN With(dirname(filename), LAMBDA dir :
            With(Mkdir(d, dir.segs, NoMode), LAMBDA r1 :
              IF Thrown(r1)
              THEN Ret(r1.disk, Append(ops, Op("mkdir", dir.segs, r1.err)), r1.err, files)
              ELSE With(FileBytes(data), LAMBDA bytes :
                   With(WriteFile(r1.disk, filename.segs, bytes, meta.mode), LAMBDA r2 :
                     Ret(r2.disk,
                         ops \o <<Op("mkdir", dir.segs, ""),
                                  [Op("writeFile", filename.segs, r2.err) EXCEPT
                                     !.data = bytes, !.mode = meta.mode]>>,
                         r2.err, files)))))
     ELSE With(DirMode(meta), LAMBDA mode :
          With(Mkdir(d, filename.segs, mode), LAMBDA r1 :
          With(Append(ops, [Op("mkdir", filename.segs, r1.err) EXCEPT !.mode = mode]), LAMBDA ops1 :
            IF Thrown(r1) THEN Ret(r1.disk, ops1, r1.err, files)
            ELSE With(createFileTreeSync(r1.disk, ops1, filename, data), LAMBDA r2 :
                   Ret(r2.disk, r2.ops, r2.err,
                       IF hasMetadata(raw)
                       THEN [files EXCEPT !.entries[k].val.content = r2.files]
                       ELSE [files EXCEPT !.entries[k].val = r2.files])))))

cftsLoop(d, ops, path, files, order, i) ==
  IF i > Len(order) THEN Ret(d, ops, "", files)
  ELSE With(cftsEntry(d, ops, path, files, order[i]), LAMBDA r :
         IF Thrown(r) THEN r
         ELSE cftsLoop(r.disk, r.ops, path, r.files, order, i + 1))

\* createFileTreeSync(path, files) run on disk d
createFileTreeSync(d, ops, path, files) ==
  cftsLoop(d, ops, path, files, ForInOrder(files.entries), 1)

(***************************************************************************)
(* fromFileSystem / fromFileSystemSync (index.ts) with processDirectory /  *)
(* processDirectorySync (utils.ts)                                         *)
(***************************************************************************)
Read(ops, err, ret) == [ops |-> ops, err |-> err, ret |-> ret]

\* the name alone in place of the full path
FullPathNameOnly(path, name) == K(name)

\* `${path}/${filePath}`
FullPath(path, name) == [abs |-> path.abs, segs |-> Append(path.segs, name)]

\* files[key] = val: an own key keeps its place, a new one comes last
SetKey(files, key, val) ==
  IF \E i \in 1..Len(files.entries) : files.entries[i].key = key
  THEN [files EXCEPT !.entries =
          [i \in 1..Len(files.entries) |->
             IF files.entries[i].key = key THEN E(key, val) ELSE files.entries[i]]]
  ELSE [files EXCEPT !.entries = Append(files.entries, E(key, val))]

\* { ...files, ...extras }
RECURSIVE SpreadFrom(_, _, _)
SpreadFrom(files, extras, i) ==
  IF i > Len(extras.entries) THEN files
  ELSE SpreadFrom(SetKey(files, extras.entries[i].key, extras.entries[i].val), extras, i + 1)

\* { ...extras, ...files }
SpreadReversed(files, extras) == SpreadFrom(extras, files, 1)

Spread(files, extras) ==
  SpreadFrom([files EXCEPT !.orig = IF extras.orig = <<>> THEN files.orig ELSE extras.orig],
             extras, 1)

RECURSIVE processDirectory(_, _, _, _)
RECURSIVE pdLoop(_, _, _, _, _, _, _)

\* one pass of the loop over filteredFiles
pdLoop(d, ops, path, options, ents, i, files) ==
  IF i > Len(ents) THEN Read(ops, "", files)
  ELSE With(FullPath(path, ents[i].name), LAMBDA fullPath :
    IF ents[i].kind = "dir"
    THEN With(processDirectory(d, ops, fullPath, options), LAMBDA r :
           IF Thrown(r) THEN r
           ELSE pdLoop(d, r.ops, path, options, ents, i + 1,
                       SetKey(files, K(ents[i].name), r.ret)))
    ELSE IF options.followLinks /\ ents[i].kind = "symlink"
    THEN With(ReadLink(d, FsPath(fullPath)), LAMBDA l :
           IF Thrown(l)
           THEN Read(Append(ops, Op("readlink", FsPath(fullPath), l.err)), l.err, Dir(<<>>))
           ELSE pdLoop(d, Append(ops, Op("readlink", FsPath(fullPath), "")), path, options,
                       ents, i + 1, SetKey(files, K(ents[i].name), symlink(l.target))))
    ELSE With(ReadFile(d, FsPath(fullPath)), LAMBDA f :
           IF Thrown(f)
           THEN Read(Append(ops, Op("readFile", FsPath(fullPath), f.err)), f.err, Dir(<<>>))
           ELSE pdLoop(d, Append(ops, Op("readFile", FsPath(fullPath), "")), path, options,
                       ents, i + 1,
                       SetKey(files, K(ents[i].name),
                              IF fullPath \in options.getEncodingForFile
                              THEN Bytes(f.data) ELSE Str(Utf8Decode(f.data))))))

\* processDirectory(path, options) on disk d: the calls made (appended to
\* ops), the error thrown ("" when none) and the mapping returned
processDirectory(d, ops, path, options) ==
  With(ReadDir(d, FsPath(path)), LAMBDA l :
    IF Thrown(l) THEN Read(Append(ops, Op("readdir", FsPath(path), l.err)), l.err, Dir(<<>>))
    ELSE pdLoop(d, Append(ops, Op("readdir", FsPath(path), "")), path, options,
                SelectSeq(l.ents, LAMBDA e : e.name \notin options.ignore), 1,
                DirFrom(<<>>, normalize(path))))

\* fromFileSystem(path, options); an option is <<>> (not given) or <<v>>;
\* a getEncodingForFile function is given by the set of paths it returns
\* null for: it returns "utf-8" for every other path, which the default
\* function does for all paths
fromFileSystem(d, path, options) ==
  IF ~isDirectory(d, path)
  THEN Read(<<Op("stat", FsPath(path), Stat(d, FsPath(path)).err)>>, "", Dir(<<>>))
  ELSE With(processDirectory(d, <<Op("stat", FsPath(path), "")>>, path,
              [ignore |-> IF options.ignore = <<>> THEN {} ELSE options.ignore[1],
               followLinks |-> IF options.followLinks = <<>> THEN TRUE ELSE options.followLinks[1],
               getEncodingForFile |-> IF options.getEncodingForFile = <<>> THEN {}
                                      ELSE options.getEncodingForFile[1]]),
            LAMBDA r :
    IF Thrown(r) THEN r
    ELSE Read(r.ops, "", IF options.extras = <<>> THEN r.ret ELSE Spread(r.ret, options.extras[1])))

RECURSIVE processDirectorySync(_, _, _, _)
RECURSIVE pdsLoop(_, _, _, _, _, _, _)

\* one pass of the loop over filteredFiles
pdsLoop(d, ops, path, options, ents, i, files) ==
  IF i > Len(ents) THEN Read(ops, "", files)
  ELSE With(FullPath(path, ents[i].name), LAMBDA fullPath :
    IF ents[i].kind = "dir"
    THEN With(processDirectorySync(d, ops, fullPath, options), LAMBDA r :
           IF Thrown(r) THEN r
           ELSE pdsLoop(d, r.ops, path, options, ents, i + 1,
                       SetKey(files, K(ents[i].name), r.ret)))
    ELSE IF options.followLinks /\ ents[i].kind = "symlink"
    THEN With(ReadLink(d, FsPath(fullPath)), LAMBDA l :
           IF Thrown(l)
           THEN Read(Append(ops, Op("readlink", FsPath(fullPath), l.err)), l.err, Dir(<<>>))
           ELSE pdsLoop(d, Append(ops, Op("readlink", FsPath(fullPath), "")), path, options,
                       ents, i + 1, SetKey(files, K(ents[i].name), symlink(l.target))))
    ELSE With(ReadFile(d, FsPath(fullPath)), LAMBDA f :
           IF Thrown(f)
           THEN Read(Append(ops, Op("readFile", FsPath(fullPath), f.err)), f.err, Dir(<<>>))
           ELSE pdsLoop(d, Append(ops, Op("readFile", FsPath(fullPath), "")), path, options,
                       ents, i + 1,
                       SetKey(files, K(ents[i].name),
                              IF fullPath \in options.getEncodingForFile
                              THEN Bytes(f.data) ELSE Str(Utf8Decode(f.data))))))

\* processDirectorySync(path, options) on disk d: the calls made (appended to
\* ops), the error thrown ("" when none) and the mapping returned
processDirectorySync(d, ops, path, options) ==
  With(ReadDir(d, FsPath(path)), LAMBDA l :
    IF Thrown(l) THEN Read(Append(ops, Op("readdir", FsPath(path), l.err)), l.err, Dir(<<>>))
    ELSE pdsLoop(d, Append(ops, Op("readdir", FsPath(path), "")), path, options,
                SelectSeq(l.ents, LAMBDA e : e.name \notin options.ignore), 1,
                DirFrom(<<>>, normalize(path))))

\* fromFileSystemSync(path, options); an option is <<>> (not given) or <<v>>
fromFileSystemSync(d, path, options) ==
  IF ~isDirectorySync(d, path)
  THEN Read(<<Op("stat", FsPath(path), Stat(d, FsPath(path)).err)>>, "", Dir(<<>>))
  ELSE With(processDirectorySync(d, <<Op("stat", FsPath(path), "")>>, path,
              [ignore |-> IF options.ignore = <<>> THEN {} ELSE options.ignore[1],
               followLinks |-> IF options.followLinks = <<>> THEN TRUE ELSE options.followLinks[1],
               getEncodingForFile |-> IF options.getEncodingForFile = <<>> THEN {}
                                      ELSE options.getEncodingForFile[1]]),
            LAMBDA r :
    IF Thrown(r) THEN r
    ELSE Read(r.ops, "", IF options.extras = <<>> THEN r.ret ELSE Spread(r.ret, options.extras[1])))

(***************************************************************************)
(* Strings of the test runner and of the name policy (utils.ts)            *)
(***************************************************************************)
BASE_DIR == <<".", "v", "i", "t", "e", "s", "t", "-", "t", "e", "s", "t", "d", "i", "r", "s">>

BasePath == Rel(<<BASE_DIR>>)

RECURSIVE JoinSegs(_)
JoinSegs(segs) ==
  IF segs = <<>> THEN <<>>
  ELSE IF Len(segs) = 1 THEN segs[1]
  ELSE segs[1] \o <<"/">> \o JoinSegs(Tail(segs))

\* the string of a normalized path
PathStr(p) ==
  IF p.abs THEN <<"/">> \o JoinSegs(p.segs)
  ELSE IF p.segs = <<>> THEN Dot
  ELSE JoinSegs(p.segs)

startsWith(str, prefix) == IsPrefix(prefix, str)

endsWith(str, suffix) ==
  Len(suffix) <= Len(str) /\ SubSeq(str, Len(str) - Len(suffix) + 1, Len(str)) = suffix

WordChars ==
  {"a", "b", "c", "d", "e", "f", "g", "h", "i", "j", "k", "l", "m", "n", "o", "p", "q",
   "r", "s", "t", "u", "v", "w", "x", "y", "z", "A", "B", "C", "D", "E", "F", "G", "H",
   "I", "J", "K", "L", "M", "N", "O", "P", "Q", "R", "S", "T", "U", "V", "W", "X", "Y",
   "Z", "0", "1", "2", "3", "4", "5", "6", "7", "8", "9", "_"}

\* str.replace(DIR_REGEX, "-"), DIR_REGEX = /[^\w\-]+/g
RECURSIVE ReplaceDirRegex(_, _)
ReplaceDirRegex(str, inRun) ==
  IF str = <<>> THEN <<>>
  ELSE IF Head(str) \in WordChars \cup {"-"}
    THEN <<Head(str)>> \o ReplaceDirRegex(Tail(str), FALSE)
  ELSE (IF inRun THEN <<>> ELSE <<"-">>) \o ReplaceDirRegex(Tail(str), TRUE)

\* the runs of hyphens kept as they are
KeepHyphens(str) == str

\* str.replace(/-{2,}/g, "-")
RECURSIVE CollapseHyphens(_)
CollapseHyphens(str) ==
  IF Len(str) < 2 THEN str
  ELSE IF str[1] = "-" /\ str[2] = "-" THEN CollapseHyphens(Tail(str))
  ELSE <<Head(str)>> \o CollapseHyphens(Tail(str))

\* str.replace(/-+$/, "")
RECURSIVE TrimHyphens(_)
TrimHyphens(str) ==
  IF str /= <<>> /\ Last(str) = "-" THEN TrimHyphens(Front(str)) ELSE str

\* str.replace(/\.test\.ts$/, "")
StripTestTs(str) ==
  IF endsWith(str, <<".", "t", "e", "s", "t", ".", "t", "s">>) THEN SubSeq(str, 1, Len(str) - 8) ELSE str

\* str.split("/").pop()
RECURSIVE LastComponent(_)
LastComponent(str) ==
  IF \E i \in 1..Len(str) : str[i] = "/"
  THEN LastComponent(Tail(str))
  ELSE str

\* x || fallback for strings
OrElse(str, fallback) == IF str = <<>> THEN fallback ELSE str

\* expect.getState().testPath of the running test file
TestPath == <<"/", "w", "/", "t", "e", "s", "t", "/", "a", ".", "t", "e", "s", "t", ".", "t", "s">>

\* testPath.replace(`${process.cwd()}/`, "")
StripCwdStr(str) ==
  IF startsWith(str, <<"/", "w", "/">>) THEN SubSeq(str, 4, Len(str)) ELSE str

\* A task is <<>> (undefined) or <<t>> with t a test
\* [type, name, file, suite] or a suite collector [type, name].
createDirnameFromTask(suiteOrTest) ==
  IF suiteOrTest.type = "collector"
  THEN LET suiteName == OrElse(suiteOrTest.name, <<"u", "n", "n", "a", "m", "e", "d", " ", "s", "u", "i", "t", "e">>)
           fileName == ReplaceDirRegex(
                         StripTestTs(LastComponent(StripCwdStr(OrElse(TestPath, <<"u", "n", "n", "a", "m", "e", "d">>)))),
                         FALSE)
           dirName == <<"v", "i", "t", "e", "s", "t", "-">> \o fileName \o <<"-">> \o ReplaceDirRegex(suiteName, FALSE)
       IN TrimHyphens(CollapseHyphens(dirName))
  ELSE LET fileName == ReplaceDirRegex(
                         StripTestTs(LastComponent(
                           OrElse(IF suiteOrTest.file = <<>> THEN <<>>
                                  ELSE suiteOrTest.file[1].name, <<"u", "n", "n", "a", "m", "e", "d">>))),
                         FALSE)
           name == OrElse(suiteOrTest.name, <<"u", "n", "n", "a", "m", "e", "d", " ", "t", "e", "s", "t">>)
           suiteName == IF suiteOrTest.suite = <<>> THEN <<>> ELSE suiteOrTest.suite[1].name
           dirName ==
             IF suiteOrTest.suite = <<>>
             THEN <<"v", "i", "t", "e", "s", "t", "-">> \o fileName \o <<"-">> \o ReplaceDirRegex(name, FALSE)
             ELSE <<"v", "i", "t", "e", "s", "t", "-">> \o fileName
                  \o (IF suiteName /= <<>>
                      THEN <<"-">> \o ReplaceDirRegex(suiteName, FALSE) \o <<"-">>
                      ELSE <<"-">>)
                  \o ReplaceDirRegex(name, FALSE)
       IN TrimHyphens(CollapseHyphens(dirName))

\* the name with the random bytes in place of the file name for every task
createDirnameFromTaskAlwaysRandom(suiteOrTest, bytes) ==
  TrimHyphens(CollapseHyphens(
    <<"v", "i", "t", "e", "s", "t", "-">> \o bytes \o <<"-">> \o ReplaceDirRegex(OrElse(suiteOrTest.name, <<>>), FALSE)))

\* createDirnameFromTask of the version that names a suite collector
\* `vitest-${randomBytes(4).toString("hex")}-${suiteName}`; bytes is the
\* hex string randomBytes returned. For a test the two versions agree.
createDirnameFromTaskRandomBytes(suiteOrTest, bytes) ==
  IF suiteOrTest.type = "collector"
  THEN TrimHyphens(CollapseHyphens(
         <<"v", "i", "t", "e", "s", "t", "-">> \o bytes \o <<"-">>
           \o ReplaceDirRegex(OrElse(suiteOrTest.name, <<"u", "n", "n", "a", "m", "e", "d", " ", "s", "u", "i", "t", "e">>), FALSE)))
  ELSE createDirnameFromTask(suiteOrTest)

\* isInVitest with the check left out: every caller counts as inside
isInVitestUnchecked(test, suite) == TRUE

\* getCurrentTest() != null || getCurrentSuite() != null
isInVitest(test, suite) == test /= <<>> \/ suite /= <<>>

(***************************************************************************)
(* testdir / testdirSync (index.ts) and the later testdir built with       *)
(* createCustomTestdir.  An optional value is <<>> (undefined) or <<v>>.   *)
(***************************************************************************)
UsageError == "testdir must be called inside vitest context"

SandboxError == "The directory name must start with '.vitest-testdirs'"

\* an option that is given is not looked at
NullishIgnored(opt, def) == def

\* options?.x ?? def
Nullish(opt, def) == IF opt = <<>> THEN def ELSE opt[1]

\* (test?.type === "test" ? test : suite) || suite
TaskOf(test, suite) == IF test /= <<>> /\ test[1].type = "test" THEN test ELSE suite

\* the removal without force: a missing path is an error
RemoveOptionsNoForce == [recursive |-> TRUE, force |-> FALSE]

\* the options of rm / rmSync in the cleanup callbacks
RemoveOptions == [recursive |-> TRUE, force |-> TRUE]

\* a callback given to onTestFinished (it belongs to the running test) or
\* to afterAll (it belongs to the suite)
\* the callback that removes the base directory, whatever path it is given
HookOfBase(name, owner, path) == [hook |-> name, owner |-> owner, path |-> BasePath]

Hook(name, owner, path) == [hook |-> name, owner |-> owner, path |-> path]

\* the callback registered whatever the options say
RegisterAlways(hk, test, suite, options, path) ==
  IF test /= <<>> THEN [hooks |-> Append(hk, Hook("onTestFinished", test, path)), err |-> ""]
  ELSE IF suite /= <<>> THEN [hooks |-> Append(hk, Hook("afterAll", suite, path)), err |-> ""]
  ELSE [hooks |-> hk, err |-> UsageError]

\* if (options?.cleanup ?? true) { ... }: the hooks afterwards and the error
Register(hk, test, suite, options, path) ==
  IF Nullish(options.cleanup, TRUE)
  THEN IF test /= <<>> THEN [hooks |-> Append(hk, Hook("onTestFinished", test, path)), err |-> ""]
       ELSE IF suite /= <<>> THEN [hooks |-> Append(hk, Hook("afterAll", suite, path)), err |-> ""]
       ELSE [hooks |-> hk, err |-> UsageError]
  ELSE [hooks |-> hk, err |-> ""]

Outcome(d, hk, err, path, ret, ops) ==
  [disk |-> d, hooks |-> hk, err |-> err, path |-> path, ret |-> ret, ops |-> ops]

\* dirname.startsWith(BASE_DIR)
InBaseByPrefix(dirName) == startsWith(PathStr(dirName), BASE_DIR)

\* testdir with the callback registered before the tree is created
testdirRegisterFirst(d, hk, test, suite, files, options) ==
  LET task == TaskOf(test, suite)
      given == options.dirname /= <<>> /\ options.dirname[1] /= Rel(<<>>)
      allowOutside == Nullish(options.allowOutside, FALSE)
  IN IF ~isInVitest(test, suite) THEN Outcome(d, hk, UsageError, <<>>, <<>>, <<>>)
     ELSE IF ~given /\ task = <<>> THEN Outcome(d, hk, "TypeError", <<>>, <<>>, <<>>)
     ELSE With(IF given THEN normalize(join(BasePath, options.dirname[1]))
               ELSE normalize(join(BasePath, Rel(<<createDirnameFromTask(task[1])>>))),
               LAMBDA dirName :
       IF ~allowOutside /\ ~InBaseByPrefix(dirName)
       THEN Outcome(d, hk, SandboxError, <<dirName>>, <<>>, <<>>)
       ELSE With(Register(hk, test, suite, options, dirName), LAMBDA c :
         IF c.err /= "" THEN Outcome(d, hk, c.err, <<dirName>>, <<>>, <<>>)
         ELSE With(createFileTree(d, <<>>, dirName, files), LAMBDA t :
           IF Thrown(t) THEN Outcome(t.disk, c.hooks, t.err, <<dirName>>, <<>>, t.ops)
           ELSE Outcome(t.disk, c.hooks, "", <<dirName>>, <<dirName>>, t.ops))))

testdir(d, hk, test, suite, files, options) ==
  LET task == TaskOf(test, suite)
      given == options.dirname /= <<>> /\ options.dirname[1] /= Rel(<<>>)
      allowOutside == Nullish(options.allowOutside, FALSE)
  IN IF ~isInVitest(test, suite) THEN Outcome(d, hk, UsageError, <<>>, <<>>, <<>>)
     ELSE IF ~given /\ task = <<>> THEN Outcome(d, hk, "TypeError", <<>>, <<>>, <<>>)
     ELSE With(IF given THEN normalize(join(BasePath, options.dirname[1]))
               ELSE normalize(join(BasePath, Rel(<<createDirnameFromTask(task[1])>>))),
               LAMBDA dirName :
       IF ~allowOutside /\ ~InBaseByPrefix(dirName)
       THEN Outcome(d, hk, SandboxError, <<dirName>>, <<>>, <<>>)
       ELSE With(createFileTree(d, <<>>, dirName, files), LAMBDA t :
         IF Thrown(t) THEN Outcome(t.disk, hk, t.err, <<dirName>>, <<>>, t.ops)
         ELSE With(Register(hk, test, suite, options, dirName), LAMBDA c :
           IF c.err /= "" THEN Outcome(t.disk, hk, c.err, <<dirName>>, <<>>, t.ops)
           ELSE Outcome(t.disk, c.hooks, "", <<dirName>>, <<dirName>>, t.ops))))

testdirSync(d, hk, test, suite, files, options) ==
  LET task == TaskOf(test, suite)
      given == options.dirname /= <<>> /\ options.dirname[1] /= Rel(<<>>)
      allowOutside == Nullish(options.allowOutside, FALSE)
  IN IF ~isInVitest(test, suite) THEN Outcome(d, hk, UsageError, <<>>, <<>>, <<>>)
     ELSE IF ~given /\ task = <<>> THEN Outcome(d, hk, "TypeError", <<>>, <<>>, <<>>)
     ELSE With(IF given THEN normalize(join(BasePath, options.dirname[1]))
               ELSE normalize(join(BasePath, Rel(<<createDirnameFromTask(task[1])>>))),
               LAMBDA dirName :
       IF ~allowOutside /\ ~InBaseByPrefix(dirName)
       THEN Outcome(d, hk, SandboxError, <<dirName>>, <<>>, <<>>)
       ELSE With(createFileTreeSync(d, <<>>, dirName, files), LAMBDA t :
         IF Thrown(t) THEN Outcome(t.disk, hk, t.err, <<dirName>>, <<>>, t.ops)
         ELSE With(Register(hk, test, suite, options, dirName), LAMBDA c :
           IF c.err /= "" THEN Outcome(t.disk, hk, c.err, <<dirName>>, <<>>, t.ops)
           ELSE Outcome(t.disk, c.hooks, "", <<dirName>>, <<dirName>>, t.ops))))

\* internalGenerateDirname(dirName) (utils.ts)
internalGenerateDirname(test, suite, dirName) ==
  IF dirName /= <<>> THEN normalize(join(BasePath, dirName[1]))
  ELSE normalize(join(BasePath, Rel(<<createDirnameFromTask(TaskOf(test, suite)[1])>>)))

\* testdir.dirname(dirName)
testdirDirname(d, hk, test, suite, dirName) ==
  IF ~isInVitest(test, suite) THEN Outcome(d, hk, UsageError, <<>>, <<>>, <<>>)
  ELSE IF dirName = <<>> /\ TaskOf(test, suite) = <<>>
    THEN Outcome(d, hk, "TypeError", <<>>, <<>>, <<>>)
  ELSE Outcome(d, hk, "", <<>>, <<internalGenerateDirname(test, suite, dirName)>>, <<>>)

\* the sandbox check of the createCustomTestdir version: the target must be
\* strictly below resolve(BASE_DIR)
IsInside(fixturePath) ==
  LET resolvedBase == resolve(Rel(<<>>), BasePath)
      resolvedTarget == resolve(Rel(<<>>), fixturePath)
      rel == relative(resolvedBase, resolvedTarget)
  IN /\ rel.segs /= <<>>
     /\ ~startsWith(JoinSegs(rel.segs), DotDot)
     /\ ~startsWith(PathStr(resolve(resolvedBase, rel)), DotDot)

\* the callback given to createCustomTestdir, with fixturePath from its
\* dirname(options) hook
testdirCustom(d, hk, test, suite, files, options) ==
  LET allowOutside == Nullish(options.allowOutside, FALSE)
  IN IF options.dirname = <<>> /\ TaskOf(test, suite) = <<>>
       THEN Outcome(d, hk, "TypeError", <<>>, <<>>, <<>>)
     ELSE IF ~isInVitest(test, suite) THEN Outcome(d, hk, UsageError, <<>>, <<>>, <<>>)
     ELSE With(internalGenerateDirname(test, suite, options.dirname), LAMBDA fixturePath :
       IF ~allowOutside /\ ~IsInside(fixturePath)
       THEN Outcome(d, hk, SandboxError, <<fixturePath>>, <<>>, <<>>)
       ELSE With(createFileTree(d, <<>>, fixturePath, files), LAMBDA t :
         IF Thrown(t) THEN Outcome(t.disk, hk, t.err, <<fixturePath>>, <<>>, t.ops)
         ELSE With(Register(hk, test, suite, options, fixturePath), LAMBDA c :
           IF c.err /= "" THEN Outcome(t.disk, hk, c.err, <<fixturePath>>, <<>>, t.ops)
           ELSE Outcome(t.disk, c.hooks, "", <<fixturePath>>, <<fixturePath>>, t.ops))))

\* the cleanup callback: rm(dirName, { recursive: true, force: true })
remove(d, path) ==
  Rm(d, resolve(Rel(<<>>), path).segs, RemoveOptions.recursive, RemoveOptions.force)

\* the test runner calls the registered callbacks of one kind, one after
\* the other; errs[i] is what the i-th of them threw
RECURSIVE RunHooks(_, _, _, _)
RunHooks(d, hk, kind, errs) ==
  IF hk = <<>> THEN [disk |-> d, errs |-> errs]
  ELSE IF Head(hk).hook /= kind THEN RunHooks(d, Tail(hk), kind, errs)
  ELSE With(remove(d, Head(hk).path), LAMBDA r :
         RunHooks(r.disk, Tail(hk), kind, Append(errs, r.err)))

(***************************************************************************)
(* The state machine of one test file: the runner enters the suite and     *)
(* its tests, the test bodies call testdir, the runner calls the           *)
(* registered callbacks when a test or the suite has finished.             *)
(***************************************************************************)
\* the disk before anything ran: the root and the working directory
Disk0 ==
  [tree |-> [q \in {<<>>, CWD} |-> DirNode(ModeRWX)], inodes |-> <<>>]

Collector == [type |-> "collector", name |-> <<"s", "u", "i", "t", "e">>]

Test(name) ==
  [type |-> "test", name |-> name, file |-> <<[name |-> <<"t", "e", "s", "t", "/", "a", ".", "t", "e", "s", "t", ".", "t", "s">>]>>,
   suite |-> <<[name |-> <<"s", "u", "i", "t", "e">>]>>]

Tests == {Test(<<"a", " ", "b">>), Test(<<"a", "-", "b">>)}

Options(dirName, cleanup, allowOutside) ==
  [dirname |-> dirName, cleanup |-> cleanup, allowOutside |-> allowOutside]

\* { f: "a" } and { g: "a", l: link("nope") }, whose second entry cannot be
\* created
LifeFiles ==
  {Dir(<<E(K(<<"f">>), Str(<<"a">>))>>),
   Dir(<<E(K(<<"g">>), Str(<<"a">>)), E(K(<<"l">>), link(K(<<"n", "o", "p", "e">>)))>>)}

\* undefined, "", ".", "custom", "../testdir", "../.vitest-testdirs-x"
DirnameOptions ==
  {<<>>, <<Rel(<<>>)>>, <<Rel(<<Dot>>)>>, <<K(<<"c", "u", "s", "t", "o", "m">>)>>,
   <<Rel(<<DotDot, <<"t", "e", "s", "t", "d", "i", "r">>>>)>>, <<Rel(<<DotDot, BASE_DIR \o <<"-", "x">>>>)>>}

\* every name with the default options, the generated and the custom name
\* without cleanup, and the names that leave the base directory with
\* allowOutside
LifeOptions ==
  {Options(n, <<>>, <<>>) : n \in DirnameOptions}
    \cup {Options(n, <<FALSE>>, <<>>) : n \in {<<>>, <<K(<<"c", "u", "s", "t", "o", "m">>)>>}}
    \cup {Options(n, <<>>, <<TRUE>>) : n \in {m \in DirnameOptions : m /= <<>> /\ Len(m[1].segs) = 2}}

NoLast == [op |-> "none"]

Called(op, files, options, r) ==
  [op |-> op, files |-> files, options |-> options,
   test |-> curTest, suite |-> curSuite, pre |-> disk, preHooks |-> hooks, r |-> r]

Init ==
  /\ disk = Disk0
  /\ curTest = <<>>
  /\ curSuite = <<>>
  /\ hooks = <<>>
  /\ last = NoLast
  /\ calls = 0
  /\ currentTestOptions = Options(<<>>, <<>>, <<>>)
  /\ collected = <<>>

EnterSuite ==
  /\ curSuite = <<>>
  /\ curSuite' = <<Collector>>
  /\ last' = NoLast
  /\ UNCHANGED <<disk, curTest, hooks, calls, currentTestOptions, collected>>

StartTest ==
  /\ curSuite /= <<>>
  /\ curTest = <<>>
  /\ \E t \in Tests : curTest' = <<t>>
  /\ last' = NoLast
  /\ UNCHANGED <<disk, curSuite, hooks, calls, currentTestOptions, collected>>

Apply(op, files, options, r) ==
  /\ disk' = r.disk
  /\ hooks' = r.hooks
  /\ last' = Called(op, files, options, r)
  /\ calls' = calls + 1
  /\ UNCHANGED <<curTest, curSuite, currentTestOptions, collected>>

CallTestdir ==
  /\ calls < MaxCalls
  /\ \E files \in LifeFiles, options \in LifeOptions :
       Apply("testdir", files, options,
             testdir(disk, hooks, curTest, curSuite, files, options))

CallTestdirSync ==
  /\ calls < MaxCalls
  /\ \E files \in LifeFiles, options \in LifeOptions :
       Apply("testdirSync", files, options,
             testdirSync(disk, hooks, curTest, curSuite, files, options))

CallTestdirCustom ==
  /\ calls < MaxCalls
  /\ \E files \in LifeFiles, options \in LifeOptions :
       Apply("testdirCustom", files, options,
             testdirCustom(disk, hooks, curTest, curSuite, files, options))

CallTestdirDirname ==
  /\ calls < MaxCalls
  /\ \E n \in DirnameOptions :
       Apply("testdir.dirname", Dir(<<>>), Options(n, <<>>, <<>>),
             testdirDirname(disk, hooks, curTest, curSuite, n))

Finished(op, kind) ==
  \E r \in {RunHooks(disk, hooks, kind, <<>>)} :
     /\ disk' = r.disk
     /\ hooks' = SelectSeq(hooks, LAMBDA h : h.hook /= kind)
     /\ last' = [op |-> op, pre |-> disk, errs |-> r.errs,
                 ran |-> SelectSeq(hooks, LAMBDA h : h.hook = kind)]

FinishTest ==
  /\ curTest /= <<>>
  /\ Finished("finishTest", "onTestFinished")
  /\ curTest' = <<>>
  /\ UNCHANGED <<curSuite, calls, currentTestOptions, collected>>

LeaveSuite ==
  /\ curSuite /= <<>>
  /\ curTest = <<>>
  /\ Finished("leaveSuite", "afterAll")
  /\ curSuite' = <<>>
  /\ UNCHANGED <<curTest, calls, currentTestOptions, collected>>

Next ==
  \/ EnterSuite
  \/ StartTest
  \/ CallTestdir
  \/ CallTestdirSync
  \/ CallTestdirCustom
  \/ CallTestdirDirname
  \/ FinishTest
  \/ LeaveSuite

Spec == Init /\ [][Next]_vars

(***************************************************************************)
(* The library called directly: createFileTree and fromFileSystem on a     *)
(* disk that holds fixtures below the working directory,                   *)
(*   README                 "r"                                            *)
(*   fix/other              "o"                                            *)
(*   fix/sym/file1          "c"                                            *)
(*   fix/sym/in    -> file1          fix/sym/up -> ../../README            *)
(*   fix/sym/side  -> ../other                                             *)
(*   fix/plain/a            "x"      fix/plain/sub/b   "y"                 *)
(*   dl            -> fix/plain                                            *)
(*   fix/back      -> ..    (the working directory: a cycle)               *)
(***************************************************************************)
DiskFs ==
  [tree |->
     (<<>> :> DirNode(ModeRWX))
     @@ (CWD :> DirNode(ModeRWX))
     @@ (CWD \o <<<<"R", "E", "A", "D", "M", "E">>>> :> FileNode(1))
     @@ (CWD \o <<<<"f", "i", "x">>>> :> DirNode(ModeRWX))
     @@ (CWD \o <<<<"f", "i", "x">>, <<"b", "a", "c", "k">>>> :> SymlinkNode(Rel(<<DotDot>>), "junction"))
     @@ (CWD \o <<<<"f", "i", "x">>, <<"o", "t", "h", "e", "r">>>> :> FileNode(2))
     @@ (CWD \o <<<<"f", "i", "x">>, <<"s", "y", "m">>>> :> DirNode(ModeRWX))
     @@ (CWD \o <<<<"f", "i", "x">>, <<"s", "y", "m">>, <<"f", "i", "l", "e", "1">>>> :> FileNode(3))
     @@ (CWD \o <<<<"f", "i", "x">>, <<"s", "y", "m">>, <<"i", "n">>>> :> SymlinkNode(K(<<"f", "i", "l", "e", "1">>), "file"))
     @@ (CWD \o <<<<"f", "i", "x">>, <<"s", "y", "m">>, <<"u", "p">>>>
           :> SymlinkNode(Rel(<<DotDot, DotDot, <<"R", "E", "A", "D", "M", "E">>>>), "file"))
     @@ (CWD \o <<<<"f", "i", "x">>, <<"s", "y", "m">>, <<"s", "i", "d", "e">>>>
           :> SymlinkNode(Rel(<<DotDot, <<"o", "t", "h", "e", "r">>>>), "file"))
     @@ (CWD \o <<<<"f", "i", "x">>, <<"p", "l", "a", "i", "n">>>> :> DirNode(ModeRWX))
     @@ (CWD \o <<<<"f", "i", "x">>, <<"p", "l", "a", "i", "n">>, <<"a">>>> :> FileNode(4))
     @@ (CWD \o <<<<"f", "i", "x">>, <<"p", "l", "a", "i", "n">>, <<"s", "u", "b">>>> :> DirNode(ModeRWX))
     @@ (CWD \o <<<<"f", "i", "x">>, <<"p", "l", "a", "i", "n">>, <<"s", "u", "b">>, <<"b">>>> :> FileNode(5))
     @@ (CWD \o <<<<"f", "i", "x">>, <<"p", "l", "a", "i", "n">>, <<"e">>>> :> DirNode(ModeRWX))
     @@ (CWD \o <<<<"d", "l">>>> :> SymlinkNode(Rel(<<<<"f", "i", "x">>, <<"p", "l", "a", "i", "n">>>>), "junction")),
   inodes |-> <<[data |-> Utf8Encode(<<"r">>), mode |-> ModeRW],
                [data |-> Utf8Encode(<<"o">>), mode |-> ModeRW],
                [data |-> Utf8Encode(<<"c">>), mode |-> ModeRW],
                [data |-> Utf8Encode(<<"x">>), mode |-> ModeRW],
                [data |-> Utf8Encode(<<"y">>), mode |-> ModeRW]>>]

\* { f1: "a", sub: { l: link("../f1"), g: "b" } }
\* { f1: "a", 1: link("f1") }
\* { a: "1", ro: metadata({ f: "x" }, { mode: 0o555 }), z: "2" }
\* { d: { x: "b" }, f1: "a", "d/l": link("../f1") }
\* { f1: "a", s: symlink("f1"), n: null, "../o": "x" }
\* { "k/j": new Uint8Array([255]), t: symlink("k"), k: metadata({}, { mode: 0o555 }) }
\* { n: 42, b: true, u: undefined, "p/q": 10n, m: -7, c: false }
TreeFiles ==
  {Dir(<<E(K(<<"f", "1">>), Str(<<"a">>)),
         E(K(<<"s", "u", "b">>), Dir(<<E(K(<<"l">>), link(Rel(<<DotDot, <<"f", "1">>>>))),
                             E(K(<<"g">>), Str(<<"b">>))>>))>>),
   Dir(<<E(K(<<"f", "1">>), Str(<<"a">>)), E(K(<<"1">>), link(K(<<"f", "1">>)))>>),
   Dir(<<E(K(<<"a">>), Str(<<"1">>)),
         E(K(<<"r", "o">>), metadata(Dir(<<E(K(<<"f">>), Str(<<"x">>))>>), [mode |-> ModeRX])),
         E(K(<<"z">>), Str(<<"2">>))>>),
   Dir(<<E(K(<<"d">>), Dir(<<E(K(<<"x">>), Str(<<"b">>))>>)),
         E(K(<<"f", "1">>), Str(<<"a">>)),
         E(Rel(<<<<"d">>, <<"l">>>>), link(Rel(<<DotDot, <<"f", "1">>>>)))>>),
   Dir(<<E(K(<<"f", "1">>), Str(<<"a">>)), E(K(<<"s">>), symlink(K(<<"f", "1">>))), E(K(<<"n">>), Null),
         E(Rel(<<DotDot, <<"o">>>>), Str(<<"x">>))>>),
   Dir(<<E(Rel(<<<<"k">>, <<"j">>>>), Bytes(<<255>>)), E(K(<<"t">>), symlink(K(<<"k">>))),
         E(K(<<"k">>), metadata(Dir(<<>>), [mode |-> ModeRX]))>>),
   Dir(<<E(K(<<"n">>), Prim("number", 42)), E(K(<<"b">>), Prim("boolean", TRUE)),
         E(K(<<"u">>), Prim("undefined", <<>>)), E(Rel(<<<<"p">>, <<"q">>>>), Prim("bigint", 10)),
         E(K(<<"m">>), Prim("number", 0 - 7)), E(K(<<"c">>), Prim("boolean", FALSE))>>)}

\* "t" (not there at first) and "README/x" (below a regular file)
TreeRoots == {K(<<"t">>), Rel(<<<<"R", "E", "A", "D", "M", "E">>, <<"x">>>>)}

\* a directory with symbolic links, one without, a missing path, a regular
\* file, a symbolic link to a directory, ".", which holds that link, and
\* "fix", which holds a symbolic link to its parent directory
SnapPaths ==
  {Rel(<<<<"f", "i", "x">>, <<"s", "y", "m">>>>), Rel(<<<<"f", "i", "x">>, <<"p", "l", "a", "i", "n">>>>), K(<<"m", "i", "s", "s", "i", "n", "g">>), K(<<"R", "E", "A", "D", "M", "E">>),
   K(<<"d", "l">>), K(Dot), K(<<"f", "i", "x">>)}

\* followLinks unset, with extras unset and { a: "E", n: null };
\* followLinks true and false, with getEncodingForFile unset and a function
\* that returns null for fix/plain/sub/b and fix/sym/file1 (also when the
\* path starts with "./") and "utf-8" for every other path
SnapOptions ==
  {[ignore |-> <<>>, followLinks |-> <<>>, getEncodingForFile |-> <<>>, extras |-> x] :
     x \in {<<>>, <<Dir(<<E(K(<<"a">>), Str(<<"E">>)), E(K(<<"n">>), Null)>>)>>}}
  \cup
  {[ignore |-> <<>>, followLinks |-> <<f>>, getEncodingForFile |-> g, extras |-> <<>>] :
     f \in BOOLEAN,
     g \in {<<>>, <<{Rel(<<<<"f", "i", "x">>, <<"p", "l", "a", "i", "n">>, <<"s", "u", "b">>, <<"b">>>>), Rel(<<<<"f", "i", "x">>, <<"s", "y", "m">>, <<"f", "i", "l", "e", "1">>>>),
                     Rel(<<Dot, <<"f", "i", "x">>, <<"p", "l", "a", "i", "n">>, <<"s", "u", "b">>, <<"b">>>>), Rel(<<Dot, <<"f", "i", "x">>, <<"s", "y", "m">>, <<"f", "i", "l", "e", "1">>>>)}>>}}

\* the directories that are replayed, and the roots they are replayed at:
\* one level, two levels (as deep as the sources) and three levels
ReplaySources == {Rel(<<<<"f", "i", "x">>, <<"s", "y", "m">>>>), Rel(<<<<"f", "i", "x">>, <<"p", "l", "a", "i", "n">>>>)}

ReplayRoots == {K(<<"o">>), Rel(<<<<"o">>, <<"p">>>>), Rel(<<<<"o">>, <<"p">>, <<"q">>>>)}

InitFs ==
  /\ disk = DiskFs
  /\ curTest = <<>>
  /\ curSuite = <<>>
  /\ hooks = <<>>
  /\ last = NoLast
  /\ calls = 0
  /\ currentTestOptions = Options(<<>>, <<>>, <<>>)
  /\ collected = <<>>

\* a call of the library outside the test runner
Direct(d, rec) ==
  /\ disk' = d
  /\ last' = rec
  /\ calls' = calls + 1
  /\ UNCHANGED <<curTest, curSuite, hooks, currentTestOptions, collected>>

CallCreateFileTree ==
  /\ calls < MaxCalls
  /\ \E path \in TreeRoots, files \in TreeFiles :
       \E r \in {createFileTree(disk, <<>>, path, files)} :
         Direct(r.disk, [op |-> "createFileTree", path |-> path, files |-> files,
                         pre |-> disk, r |-> r])

CallCreateFileTreeSync ==
  /\ calls < MaxCalls
  /\ \E path \in TreeRoots, files \in TreeFiles :
       \E r \in {createFileTreeSync(disk, <<>>, path, files)} :
         Direct(r.disk, [op |-> "createFileTreeSync", path |-> path, files |-> files,
                         pre |-> disk, r |-> r])

CallFromFileSystem ==
  /\ calls < MaxCalls
  /\ \E path \in SnapPaths, options \in SnapOptions :
       Direct(disk, [op |-> "fromFileSystem", path |-> path, options |-> options,
                     pre |-> disk, r |-> fromFileSystem(disk, path, options)])

CallFromFileSystemSync ==
  /\ calls < MaxCalls
  /\ \E path \in SnapPaths, options \in SnapOptions :
       Direct(disk, [op |-> "fromFileSystemSync", path |-> path, options |-> options,
                     pre |-> disk, r |-> fromFileSystemSync(disk, path, options)])

\* const files = await fromFileSystem(src); await createFileTree(root, files)
Replay ==
  /\ calls < MaxCalls
  /\ \E src \in ReplaySources, root \in ReplayRoots :
       \E snap \in {fromFileSystem(disk, src, [ignore |-> <<>>, followLinks |-> <<>>,
                                                   getEncodingForFile |-> <<>>, extras |-> <<>>])} :
         \E r \in {IF Thrown(snap) THEN Ret(disk, <<>>, snap.err, snap.ret)
                   ELSE createFileTree(disk, <<>>, root, snap.ret)} :
           Direct(r.disk, [op |-> "replay", src |-> src, root |-> root, pre |-> disk,
                           snap |-> snap, r |-> r])

NextTree ==
  \/ CallCreateFileTree
  \/ CallCreateFileTreeSync

SpecTree == InitFs /\ [][NextTree]_vars

NextSnap ==
  \/ CallFromFileSystem
  \/ CallFromFileSystemSync
  \/ Replay

SpecSnap == InitFs /\ [][NextSnap]_vars

(***************************************************************************)
(* The name policy called directly: createDirnameFromTask on the tasks     *)
(* and suite collectors of NameTasks.                                      *)
(***************************************************************************)
\* test names "", "a b", "a-b", "t..  x-", "---", "A_9#"; files missing,
\* "utils.test.ts", "/p/to/f.test.ts", "d.test.ts/", "a.test.tsx"; no suite,
\* a suite without name, suites "s u" and "--"
NameTasks ==
  LET names == {<<>>, <<"a", " ", "b">>, <<"a", "-", "b">>, <<"t", ".", ".", " ", " ", "x", "-">>, <<"-", "-", "-">>, <<"A", "_", "9", "#">>}
      files == {<<>>, <<[name |-> <<"u", "t", "i", "l", "s", ".", "t", "e", "s", "t", ".", "t", "s">>]>>, <<[name |-> <<"/", "p", "/", "t", "o", "/", "f", ".", "t", "e", "s", "t", ".", "t", "s">>]>>,
                <<[name |-> <<"d", ".", "t", "e", "s", "t", ".", "t", "s", "/">>]>>, <<[name |-> <<"a", ".", "t", "e", "s", "t", ".", "t", "s", "x">>]>>}
      suites == {<<>>, <<[name |-> <<>>]>>, <<[name |-> <<"s", " ", "u">>]>>, <<[name |-> <<"-", "-">>]>>}
  IN {[type |-> "collector", name |-> n] : n \in names}
       \cup {[type |-> "test", name |-> n, file |-> f, suite |-> s] :
               n \in names, f \in files, s \in suites}

\* randomBytes(4).toString("hex"): two of the strings it can return
RandomHex == {<<"0", "a", "1", "b", "2", "c", "3", "d">>, <<"f", "f", "f", "f", "f", "f", "f", "f">>}

\* One call of createDirnameFromTask of either version; before holds what
\* the call before it returned when that call was given the same task.
CallCreateDirname ==
  /\ calls < MaxCalls
  /\ \E task \in NameTasks, bytes \in RandomHex :
       last' = [op |-> "createDirnameFromTask", task |-> task,
                r |-> createDirnameFromTask(task),
                random |-> createDirnameFromTaskRandomBytes(task, bytes),
                before |-> IF last.op = "createDirnameFromTask" /\ last.task = task
                           THEN <<[task |-> last.task, r |-> last.r, random |-> last.random]>>
                           ELSE <<>>]
  /\ calls' = calls + 1
  /\ UNCHANGED <<disk, curTest, curSuite, hooks, currentTestOptions, collected>>

\* isSymlink, isLink and hasMetadata applied to a value: null, undefined,
\* "", "a", 123, [], {}, { a: "x" }, the markers symlink(p) and link(p),
\* metadata("x", { mode }), metadata(symlink(p), { mode }), and objects that
\* hold some of the three exported symbols
CallPredicates ==
  /\ calls < MaxCalls
  /\ \E value \in
         {Null, Prim("undefined", <<>>), Str(<<>>), Str(<<"a">>), Prim("number", 123),
          Prim("array", <<>>), Dir(<<>>), Dir(<<E(K(<<"a">>), Str(<<"x">>))>>)}
         \cup {symlink(p) : p \in {Rel(<<>>), K(<<"a">>), Rel(<<DotDot, <<"a">>>>)}}
         \cup {link(p) : p \in {Rel(<<>>), K(<<"a">>), Rel(<<DotDot, <<"a">>>>)}}
         \cup {metadata(c, [mode |-> 292]) : c \in {Str(<<"x">>), symlink(K(<<"a">>)), link(K(<<"a">>))}}
         \cup {[t |-> "object", tags |-> T, path |-> K(<<"a">>)] :
                 T \in SUBSET {"symlink", "link", "meta"}} :
       last' = [op |-> "is", value |-> value, isSymlink |-> isSymlink(value),
                isLink |-> isLink(value), hasMetadata |-> hasMetadata(value)]
  /\ calls' = calls + 1
  /\ UNCHANGED <<disk, curTest, curSuite, hooks, currentTestOptions, collected>>

SpecName == Init /\ [][CallCreateDirname \/ CallPredicates]_vars

(***************************************************************************)
(* The test function with the testdir fixture (vitest.ts): withTestdir     *)
(* registers a test with options and keeps the options in the module's     *)
(* currentTestOptions; the runner collects the tests of the file first and *)
(* runs their bodies afterwards, in any order; a body calls the testdir of *)
(* its context.                                                            *)
(***************************************************************************)
\* currentTestOptions = options; return originalTest(name, options, fn)
WithTestdir ==
  /\ last.op \in {"none", "withTestdir"}
  /\ Len(collected) < MaxCalls
  /\ \E t \in Tests, options \in
         {Options(<<>>, <<>>, <<>>), Options(<<K(<<"c", "u", "s", "t", "o", "m">>)>>, <<>>, <<>>),
          Options(<<>>, <<FALSE>>, <<>>), Options(<<Rel(<<DotDot, <<"t", "e", "s", "t", "d", "i", "r">>>>)>>, <<>>, <<TRUE>>)} :
       /\ \A i \in 1..Len(collected) : collected[i].task /= t
       /\ currentTestOptions' = options
       /\ collected' = Append(collected, [task |-> t, options |-> options])
       /\ last' = [op |-> "withTestdir", name |-> t.name, options |-> options]
  /\ UNCHANGED <<disk, curTest, curSuite, hooks, calls>>

\* the runner starts the body of a collected test
StartCollected ==
  /\ curTest = <<>>
  /\ \E i \in 1..Len(collected) : curTest' = <<collected[i].task>>
  /\ last' = [op |-> "startTest"]
  /\ UNCHANGED <<disk, curSuite, hooks, calls, currentTestOptions, collected>>

\* testdirFn(files, options) of the running test's context:
\* testdir(files, { ...currentTestOptions, ...options,
\*   dirname: options?.dirname || currentTestOptions.dirname || task.name })
CallFixtureTestdir ==
  /\ curTest /= <<>>
  /\ calls < MaxCalls
  /\ \E files \in {Dir(<<E(K(<<"f">>), Str(<<"a">>))>>)},
        options \in {Options(<<>>, <<>>, <<>>), Options(<<K(<<"m", "i", "n", "e">>)>>, <<>>, <<>>),
                     Options(<<>>, <<TRUE>>, <<>>)} :
       \E merged \in
           {[dirname |-> IF options.dirname /= <<>> /\ options.dirname[1] /= Rel(<<>>)
                           THEN options.dirname
                         ELSE IF currentTestOptions.dirname /= <<>>
                                 /\ currentTestOptions.dirname[1] /= Rel(<<>>)
                           THEN currentTestOptions.dirname
                         ELSE <<K(curTest[1].name)>>,
             cleanup |-> IF options.cleanup /= <<>> THEN options.cleanup
                         ELSE currentTestOptions.cleanup,
             allowOutside |-> IF options.allowOutside /= <<>> THEN options.allowOutside
                              ELSE currentTestOptions.allowOutside]} :
         \E r \in {testdir(disk, hooks, curTest, curSuite, files, merged)} :
           /\ disk' = r.disk
           /\ hooks' = r.hooks
           /\ last' = [op |-> "context.testdir", test |-> curTest, files |-> files,
                       options |-> options, effective |-> merged, pre |-> disk,
                       preHooks |-> hooks, r |-> r]
           /\ calls' = calls + 1
  /\ UNCHANGED <<curTest, curSuite, currentTestOptions, collected>>

SpecWith == Init /\ [][WithTestdir \/ StartCollected \/ CallFixtureTestdir \/ FinishTest]_vars

(***************************************************************************)
(* Concurrent tests of one suite (test.concurrent): curTest holds the      *)
(* tests that are running; each of them may call testdir, and the runner   *)
(* calls the onTestFinished callbacks of a test when that test finishes.   *)
(***************************************************************************)
StartConcurrent ==
  /\ curSuite /= <<>>
  /\ \E t \in Tests :
       /\ \A i \in DOMAIN curTest : curTest[i] /= t
       /\ curTest' = Append(curTest, t)
  /\ last' = NoLast
  /\ UNCHANGED <<disk, curSuite, hooks, calls, currentTestOptions, collected>>

CallTestdirAs ==
  /\ calls < MaxCalls
  /\ \E i \in DOMAIN curTest, files \in LifeFiles :
       \E r \in {testdir(disk, hooks, <<curTest[i]>>, curSuite, files, Options(<<>>, <<>>, <<>>))} :
          /\ disk' = r.disk
          /\ hooks' = r.hooks
          /\ last' = [op |-> "testdir", test |-> <<curTest[i]>>, files |-> files,
                      pre |-> disk, preHooks |-> hooks, r |-> r]
  /\ calls' = calls + 1
  /\ UNCHANGED <<curTest, curSuite, currentTestOptions, collected>>

FinishAs ==
  \E i \in DOMAIN curTest :
    \E r \in {RunHooks(disk, SelectSeq(hooks, LAMBDA h : h.owner = <<curTest[i]>>),
                       "onTestFinished", <<>>)} :
       /\ disk' = r.disk
       /\ hooks' = SelectSeq(hooks, LAMBDA h : h.owner /= <<curTest[i]>>)
       /\ curTest' = SelectSeq(curTest, LAMBDA t : t /= curTest[i])
       /\ last' = [op |-> "finishTest", test |-> <<curTest[i]>>, pre |-> disk,
                   errs |-> r.errs,
                   ran |-> SelectSeq(hooks, LAMBDA h : h.owner = <<curTest[i]>>)]
       /\ UNCHANGED <<curSuite, calls, currentTestOptions, collected>>

SpecConc == Init /\ [][EnterSuite \/ StartConcurrent \/ CallTestdirAs \/ FinishAs]_vars

(***************************************************************************)
(* Properties of the lifecycle (Spec).  last holds the call just made:     *)
(* its inputs, the disk and the callbacks before it, and its outcome.      *)
(***************************************************************************)

\* C1: a testdir/testdirSync call made inside a test or suite without
\* allowOutside either throws the sandbox error having made no filesystem
\* call, or works on a root that is a strict descendant of the resolved
\* base directory (not the base directory itself, not a sibling of it).
C1_SandboxOrDescendant ==
  (/\ last.op \in {"testdir", "testdirSync"}
   /\ isInVitest(last.test, last.suite)
   /\ last.options.allowOutside = <<>>)
  => \/ /\ last.r.err = SandboxError
        /\ last.r.ops = <<>>
        /\ last.r.disk = last.pre
     \/ /\ last.r.err /= SandboxError
        /\ last.r.path /= <<>>
        /\ LET base == resolve(Rel(<<>>), BasePath).segs
               root == resolve(Rel(<<>>), last.r.path[1]).segs
           IN IsPrefix(base, root) /\ Len(root) > Len(base)

\* C2: testdir, testdirSync and testdir.dirname called with neither a
\* current test nor a current suite throw the usage error, make no
\* filesystem call, leave the disk as it was and register nothing.
C2_UsageErrorOutsideContext ==
  (/\ last.op \in {"testdir", "testdirSync", "testdir.dirname"}
   /\ last.test = <<>>
   /\ last.suite = <<>>)
  => /\ last.r.err = UsageError
     /\ last.r.ret = <<>>
     /\ last.r.ops = <<>>
     /\ last.r.disk = last.pre
     /\ disk = last.pre
     /\ hooks = last.preHooks

\* a call outside any test and suite, with a dirname given, has thrown
C2_Witness ==
  /\ last.op \in {"testdir", "testdirSync", "testdir.dirname"}
  /\ last.test = <<>>
  /\ last.suite = <<>>
  /\ last.options.dirname /= <<>>
  /\ last.r.err = UsageError

C4_FailureStopsAndKeeps ==
  last.op \in {"createFileTree", "createFileTreeSync"} =>
    LET ops == last.r.ops
        n == Len(ops)
        made == {i \in 1..n : ops[i].op /= "stat"}
        post == last.r.disk
    IN /\ disk = post
       /\ \A i \in made : ops[i].err /= "" => i = n /\ last.r.err = ops[i].err
       /\ last.r.err /= "" => n >= 1 /\ ops[n].op /= "stat" /\ ops[n].err = last.r.err
       /\ DOMAIN last.pre.tree \subseteq DOMAIN post.tree
       /\ \A q \in DOMAIN post.tree \ DOMAIN last.pre.tree :
            \E i \in made : IsPrefix(q, ops[i].p)
       /\ \A i \in made : ops[i].err = "" =>
            CASE ops[i].op = "mkdir" -> Stat(post, ops[i].p).kind = "dir"
              [] ops[i].op = "writeFile" ->
                   ReadFile(post, ops[i].p) = [err |-> "", data |-> ops[i].data]
              [] ops[i].op = "link" ->
                   /\ ops[i].p \in DOMAIN post.tree
                   /\ post.tree[ops[i].p] = post.tree[ops[i].from]
              [] ops[i].op = "symlink" ->
                   /\ ops[i].p \in DOMAIN post.tree
                   /\ post.tree[ops[i].p].kind = "symlink"

\* a call has failed with EACCES after it had written a file, which is
\* still there
C4_Witness ==
  /\ last.op \in {"createFileTree", "createFileTreeSync"}
  /\ last.r.err = "EACCES"
  /\ \E i \in 1..Len(last.r.ops) :
       /\ last.r.ops[i].op = "writeFile"
       /\ last.r.ops[i].err = ""
       /\ last.r.ops[i].p \notin DOMAIN last.pre.tree
       /\ ReadFile(disk, last.r.ops[i].p).data = last.r.ops[i].data

\* C6: at a root that is not there yet (its parent is a writable
\* directory), a hard-link entry whose marker names a string entry
\* declared earlier in the same mapping is created as a link to that
\* file, whatever the keys are.
C6_EarlierFileExistsForLaterLink ==
  last.op \in {"createFileTree", "createFileTreeSync"} =>
    LET root == resolve(Rel(<<>>), last.path)
        es == last.files.entries
    IN (root.segs \notin DOMAIN last.pre.tree /\ CreateErr(last.pre.tree, root.segs) = "")
       => \A j \in 1..Len(es) : \A i \in 1..(j - 1) :
            (/\ isLink(es[j].val)
             /\ es[i].val.t = "string"
             /\ resolve(dirname(resolve(root, es[j].key)), es[j].val.path)
                  = resolve(root, es[i].key))
            => /\ resolve(root, es[j].key).segs \in DOMAIN disk.tree
               /\ resolve(root, es[i].key).segs \in DOMAIN disk.tree
               /\ disk.tree[resolve(root, es[j].key).segs]
                    = disk.tree[resolve(root, es[i].key).segs]

\* C7: for every hard-link entry of the mapping (at the top level or in a
\* directory of the top level), at resolved path P with marker path T, the
\* link call made for P names resolve(dirname(P), T) as the existing file;
\* when it succeeded, P and that file are the same file and reading P
\* gives its content; a call that resolves has made the link call of
\* every such entry.
C7_LinkRelativeToParent ==
  last.op \in {"createFileTree", "createFileTreeSync"} =>
    LET root == resolve(Rel(<<>>), last.path)
        es == last.files.entries
        ops == last.r.ops
        top == {[p |-> resolve(root, es[i].key), t |-> es[i].val.path] :
                  i \in {j \in 1..Len(es) : isLink(es[j].val)}}
        nested ==
          UNION {{[p |-> resolve(resolve(root, es[i].key), es[i].val.entries[k].key),
                   t |-> es[i].val.entries[k].val.path] :
                     k \in {m \in 1..Len(es[i].val.entries) : isLink(es[i].val.entries[m].val)}} :
                   i \in {j \in 1..Len(es) : es[j].val.t = "dir"}}
    IN \A e \in top \cup nested :
         /\ last.r.err = "" => \E i \in 1..Len(ops) : ops[i].op = "link" /\ ops[i].p = e.p.segs
         /\ \A i \in 1..Len(ops) :
              (ops[i].op = "link" /\ ops[i].p = e.p.segs) =>
                /\ ops[i].from = resolve(dirname(e.p), e.t).segs
                /\ ops[i].err = "" =>
                     /\ ReadFile(disk, e.p.segs).err = ""
                     /\ ReadFile(disk, e.p.segs) = ReadFile(disk, resolve(dirname(e.p), e.t).segs)
                     /\ disk.tree[e.p.segs] = disk.tree[resolve(dirname(e.p), e.t).segs]

\* link("../f1") inside a subdirectory has been created and reads the
\* content of f1 of the root
C7_Witness ==
  /\ last.op \in {"createFileTree", "createFileTreeSync"}
  /\ last.r.err = ""
  /\ \E i \in 1..Len(last.r.ops) :
       LET o == last.r.ops[i]
           root == resolve(Rel(<<>>), last.path).segs
       IN /\ o.op = "link"
          /\ o.err = ""
          /\ Len(o.p) = Len(root) + 2
          /\ o.from = Append(root, <<"f", "1">>)
          /\ ReadFile(disk, o.p) = [err |-> "", data |-> Utf8Encode(<<"a">>)]

\* C9: on every disk reached, for every root and mapping, createFileTree
\* and createFileTreeSync make the same filesystem calls with the same
\* results, end with the same disk and the same outcome; for every path
\* (the fixtures and the roots written to) and all options, fromFileSystem
\* and fromFileSystemSync make the same calls and return the same mapping
\* or throw the same error.
C9_SyncEqualsAsync ==
  /\ \A path \in TreeRoots, files \in TreeFiles :
       createFileTreeSync(disk, <<>>, path, files) = createFileTree(disk, <<>>, path, files)
  /\ \A path \in SnapPaths \cup TreeRoots, options \in SnapOptions :
       fromFileSystemSync(disk, path, options) = fromFileSystem(disk, path, options)

\* createFileTreeSync has failed after several calls, as createFileTree
\* does on the same disk, and the tree it left is read back
C9_Witness ==
  /\ last.op = "createFileTreeSync"
  /\ last.r.err /= ""
  /\ Len(last.r.ops) >= 3
  /\ createFileTree(last.pre, <<>>, last.path, last.files) = last.r
  /\ \E options \in SnapOptions :
       /\ fromFileSystemSync(disk, last.path, options).ret.entries /= <<>>
       /\ fromFileSystem(disk, last.path, options).ret.entries /= <<>>

(***************************************************************************)
(* Properties of fromFileSystem / fromFileSystemSync and of replaying a    *)
(* snapshot (SpecSnap)                                                     *)
(***************************************************************************)

\* C5: a snapshot of a directory replayed at a root that is not there yet
\* and whose depth differs from the depth of the directory: every relative
\* symbolic link of the directory that resolved to a file is a symbolic
\* link in the replayed tree that resolves to a file, namely to the same
\* file or, when that file is inside the directory, to its replayed copy.
C5_SymlinkRebased ==
  last.op = "replay" =>
    LET src == resolve(Rel(<<>>), last.src).segs
        root == resolve(Rel(<<>>), last.root).segs
        pre == last.pre
        under(tree, base) ==
          {SubSeq(x, Len(base) + 1, Len(x)) :
             x \in {y \in DOMAIN tree : IsPrefix(base, y) /\ Len(y) > Len(base)}}
        links == {q \in under(pre.tree, src) :
                    /\ pre.tree[src \o q].kind = "symlink"
                    /\ ~pre.tree[src \o q].target.abs
                    /\ Stat(pre, src \o q).kind = "file"}
    IN (/\ root \notin DOMAIN pre.tree
        /\ Len(normalize(last.root).segs) /= Len(normalize(last.src).segs))
       => /\ last.r.err = ""
          /\ \A q \in links :
               /\ root \o q \in DOMAIN disk.tree
               /\ disk.tree[root \o q].kind = "symlink"
               /\ Stat(disk, root \o q).kind = "file"
               /\ \/ Stat(disk, root \o q).p = Stat(pre, src \o q).p
                  \/ /\ IsPrefix(src, Stat(pre, src \o q).p)
                     /\ Stat(disk, root \o q).p
                          = root \o SubSeq(Stat(pre, src \o q).p, Len(src) + 1,
                                           Len(Stat(pre, src \o q).p))

C10_EmptyForMissingOrNonDirectory ==
  (/\ last.op \in {"fromFileSystem", "fromFileSystemSync"}
   /\ Stat(last.pre, FsPath(last.path)).kind /= "dir")
  => /\ last.r.err = ""
     /\ last.r.ret = Dir(<<>>)
     /\ Len(last.r.ops) = 1
     /\ last.r.ops[1].op = "stat"
     /\ disk = last.pre

\* the path given was a regular file
C10_Witness ==
  /\ last.op \in {"fromFileSystem", "fromFileSystemSync"}
  /\ Stat(last.pre, FsPath(last.path)).kind = "file"
  /\ last.r.ret = Dir(<<>>)

(***************************************************************************)
(* Further properties of createFileTree / createFileTreeSync (SpecTree)    *)
(***************************************************************************)

\* C11: every writeFile call made for a primitive entry of the mapping
\* comes right after a successful mkdir of the parent directory of the
\* file and is given the string itself (in UTF-8) for a string, the bytes
\* for a Uint8Array, "null" for null, "undefined" for undefined, "true" or
\* "false" for a boolean and, for a number or a bigint, the decimal digits
\* of the value without leading zero (after "-" when it is negative); when
\* the call succeeded the path is a regular file with that content in a
\* directory; a call that resolves has written every primitive entry.
C11_PrimitivesWritten ==
  last.op \in {"createFileTree", "createFileTreeSync"} =>
    LET root == resolve(Rel(<<>>), last.path)
        es == last.files.entries
        ops == last.r.ops
        content(v) == IF v.t = "meta" THEN v.content ELSE v
        prims == {i \in 1..Len(es) :
                    content(es[i].val).t \in {"string", "bytes", "number", "boolean",
                                              "bigint", "null", "undefined"}}
        magnitude(n) == IF n < 0 THEN 0 - n ELSE n
        digits(s, n) == IF n < 0 THEN Tail(s) ELSE s
        written(v, w) ==
          CASE v.t = "string" -> w = Utf8Encode(v.v)
            [] v.t = "bytes" -> w = v.v
            [] v.t = "null" -> w = Utf8Encode(<<"n", "u", "l", "l">>)
            [] v.t = "undefined" -> w = Utf8Encode(<<"u", "n", "d", "e", "f", "i", "n", "e", "d">>)
            [] v.t = "boolean" -> w = Utf8Encode(IF v.v THEN <<"t", "r", "u", "e">> ELSE <<"f", "a", "l", "s", "e">>)
            [] v.t \in {"number", "bigint"} ->
                 /\ Utf8Decode(w) /= <<>>
                 /\ (v.v < 0) <=> (Utf8Decode(w)[1] = "-")
                 /\ digits(Utf8Decode(w), v.v) /= <<>>
                 /\ \A k \in 1..Len(digits(Utf8Decode(w), v.v)) :
                      IsDigit(digits(Utf8Decode(w), v.v)[k])
                 /\ Len(digits(Utf8Decode(w), v.v)) > 1 => digits(Utf8Decode(w), v.v)[1] /= "0"
                 /\ Decimal(digits(Utf8Decode(w), v.v)) = magnitude(v.v)
    IN \A i \in prims :
         /\ last.r.err = "" =>
              \E j \in 1..Len(ops) :
                ops[j].op = "writeFile" /\ ops[j].p = resolve(root, es[i].key).segs
         /\ \A j \in 1..Len(ops) :
              (ops[j].op = "writeFile" /\ ops[j].p = resolve(root, es[i].key).segs) =>
                /\ written(content(es[i].val), ops[j].data)
                /\ j > 1
                /\ ops[j - 1].op = "mkdir"
                /\ ops[j - 1].p = dirname(resolve(root, es[i].key)).segs
                /\ ops[j - 1].err = ""
                /\ ops[j].err = "" =>
                     /\ Stat(disk, dirname(resolve(root, es[i].key)).segs).kind = "dir"
                     /\ Stat(disk, ops[j].p).kind = "file"
                     /\ ReadFile(disk, ops[j].p) = [err |-> "", data |-> ops[j].data]

\* { n: 42, b: true, u: undefined, "p/q": 10n, m: -7, c: false } has been
\* created at a new root: p was made for p/q, which holds "10"
C11_Witness ==
  /\ last.op \in {"createFileTree", "createFileTreeSync"}
  /\ last.r.err = ""
  /\ resolve(Rel(<<>>), last.path).segs \notin DOMAIN last.pre.tree
  /\ ReadFile(disk, resolve(Rel(<<>>), last.path).segs \o <<<<"p">>, <<"q">>>>)
       = [err |-> "", data |-> Utf8Encode(<<"1", "0">>)]
  /\ ReadFile(disk, Append(resolve(Rel(<<>>), last.path).segs, <<"n">>)).data = Utf8Encode(<<"4", "2">>)
  /\ ReadFile(disk, Append(resolve(Rel(<<>>), last.path).segs, <<"m">>)).data = Utf8Encode(<<"-", "7">>)
  /\ ReadFile(disk, Append(resolve(Rel(<<>>), last.path).segs, <<"u">>)).data = Utf8Encode(<<"u", "n", "d", "e", "f", "i", "n", "e", "d">>)
  /\ ReadFile(disk, Append(resolve(Rel(<<>>), last.path).segs, <<"c">>)).data = Utf8Encode(<<"f", "a", "l", "s", "e">>)

(***************************************************************************)
(* Properties of the name policy (SpecName)                                *)
(***************************************************************************)

C13_DistinctDirectories ==
  /\ \A i, j \in DOMAIN hooks :
       hooks[i].owner /= hooks[j].owner => hooks[i].path /= hooks[j].path
  /\ (last.op = "testdir" /\ last.r.path /= <<>>)
       => \A i \in DOMAIN last.preHooks :
            last.preHooks[i].owner /= last.test => last.preHooks[i].path /= last.r.path[1]
  /\ last.op = "finishTest"
       => \A i \in DOMAIN hooks :
            Stat(disk, resolve(Rel(<<>>), hooks[i].path).segs).kind = "dir"

(***************************************************************************)
(* Further properties of the lifecycle (Spec)                              *)
(***************************************************************************)

\* C14: a testdir/testdirSync call made inside a test or suite with
\* allowOutside: true and a dirname that leads out of the base directory
\* never throws the sandbox error: the tree is created at the path
\* join(BASE_DIR, dirname) resolves to, which is outside the base
\* directory (every filesystem call is made at or below it, and the call
\* fails only with the error of its last filesystem call), and a call that
\* succeeds returns that path, where the files of the mapping then are.
C14_AllowOutside ==
  (/\ last.op \in {"testdir", "testdirSync"}
   /\ (last.test /= <<>> \/ last.suite /= <<>>)
   /\ last.options.allowOutside = <<TRUE>>
   /\ last.options.dirname /= <<>>
   /\ last.options.dirname[1].segs /= <<>>
   /\ last.options.dirname[1].segs[1] = DotDot)
  => LET base == resolve(Rel(<<>>), BasePath)
         target == resolve(base, last.options.dirname[1])
         ops == last.r.ops
     IN /\ ~IsPrefix(base.segs, target.segs)
        /\ last.r.err /= SandboxError
        /\ ops /= <<>>
        /\ \A i \in 1..Len(ops) : IsPrefix(target.segs, ops[i].p)
        /\ last.r.err /= "" => ops[Len(ops)].err = last.r.err
        /\ last.r.err = "" =>
             /\ last.r.ret /= <<>>
             /\ resolve(Rel(<<>>), last.r.ret[1]) = target
             /\ Stat(disk, target.segs).kind = "dir"
             /\ \A k \in 1..Len(last.files.entries) :
                  last.files.entries[k].val.t = "string" =>
                    ReadFile(disk, resolve(target, last.files.entries[k].key).segs)
                      = [err |-> "", data |-> Utf8Encode(last.files.entries[k].val.v)]

\* testdir({ f: "a" }, { dirname: "../testdir", allowOutside: true }) has
\* returned "testdir" and /w/testdir/f is there
C14_Witness ==
  /\ last.op \in {"testdir", "testdirSync"}
  /\ last.options.allowOutside = <<TRUE>>
  /\ last.options.dirname = <<Rel(<<DotDot, <<"t", "e", "s", "t", "d", "i", "r">>>>)>>
  /\ last.r.err = ""
  /\ last.r.ret = <<K(<<"t", "e", "s", "t", "d", "i", "r">>)>>
  /\ CWD \o <<<<"t", "e", "s", "t", "d", "i", "r">>>> \notin DOMAIN last.pre.tree
  /\ ReadFile(disk, CWD \o <<<<"t", "e", "s", "t", "d", "i", "r">>, <<"f">>>>) = [err |-> "", data |-> Utf8Encode(<<"a">>)]

C16_MarkersDisjoint ==
  last.op = "is"
  => /\ (\/ last.value.t \in {"null", "undefined", "string", "number", "array", "dir"}
         \/ (last.value.t = "object" /\ last.value.tags = {}))
        => (~last.isSymlink /\ ~last.isLink /\ ~last.hasMetadata)
     /\ ~(last.isSymlink /\ last.isLink)
     /\ last.value.t = "symlink" => (last.isSymlink /\ ~last.isLink)
     /\ last.value.t = "link" => (last.isLink /\ ~last.isSymlink)


(***************************************************************************)
(* Further properties of fromFileSystem / fromFileSystemSync (SpecSnap)    *)
(***************************************************************************)
\* C17: a snapshot of a directory with followLinks true or unset that
\* resolves: for every entry at any depth below the directory (the
\* top-level keys that extras replaces apart), a symbolic link is stored as
\* a symlink marker whose path is the (normalized) target stored in the
\* link itself, also when the link points to a directory, and nothing is
\* stored below it; a regular file is stored as its bytes when
\* getEncodingForFile returns null for its path, and as the text those
\* bytes decode to as utf-8 otherwise.
C17_LinksKeptAndFilesRead ==
  (/\ last.op \in {"fromFileSystem", "fromFileSystemSync"}
   /\ last.options.followLinks \in {<<>>, <<TRUE>>}
   /\ Stat(last.pre, FsPath(last.path)).kind = "dir"
   /\ last.r.err = "")
  => LET base == Stat(last.pre, FsPath(last.path)).p
         pre == last.pre
         RECURSIVE at(_, _)
         at(v, rel) ==
           IF rel = <<>> THEN <<v>>
           ELSE IF v.t /= "dir" THEN <<>>
           ELSE IF \A i \in 1..Len(v.entries) : v.entries[i].key /= K(Head(rel)) THEN <<>>
           ELSE at(v.entries[CHOOSE i \in 1..Len(v.entries) : v.entries[i].key = K(Head(rel))].val,
                   Tail(rel))
         under == {SubSeq(x, Len(base) + 1, Len(x)) :
                     x \in {y \in DOMAIN pre.tree : IsPrefix(base, y) /\ Len(y) > Len(base)}}
         replaced(q) ==
           /\ last.options.extras /= <<>>
           /\ \E i \in 1..Len(last.options.extras[1].entries) :
                last.options.extras[1].entries[i].key = K(q[1])
         null(q) ==
           /\ last.options.getEncodingForFile /= <<>>
           /\ [abs |-> last.path.abs, segs |-> last.path.segs \o q]
                \in last.options.getEncodingForFile[1]
     IN \A q \in under :
          ~replaced(q) =>
            /\ pre.tree[base \o q].kind = "symlink"
               => at(last.r.ret, q)
                    = <<[t |-> "symlink", path |-> normalize(pre.tree[base \o q].target)]>>
            /\ pre.tree[base \o q].kind = "file"
               => at(last.r.ret, q)
                    = <<IF null(q)
                        THEN [t |-> "bytes", v |-> pre.inodes[pre.tree[base \o q].ino].data]
                        ELSE [t |-> "string",
                              v |-> Utf8Decode(pre.inodes[pre.tree[base \o q].ino].data)]>>

\* "." snapshotted with followLinks: true and a getEncodingForFile that
\* returns null for ./fix/plain/sub/b: dl, a link to the directory
\* fix/plain, is the marker symlink("fix/plain"), fix/sym/up is the marker
\* symlink("../../README"), fix/plain/sub/b is the bytes of "y" and
\* fix/plain/a is the text "x"
C17_Witness ==
  /\ last.op = "fromFileSystem"
  /\ last.path = K(Dot)
  /\ last.options.followLinks = <<TRUE>>
  /\ last.options.getEncodingForFile /= <<>>
  /\ last.options.extras = <<>>
  /\ last.r.err = ""
  /\ \E i, j \in 1..Len(last.r.ret.entries) :
       /\ last.r.ret.entries[i] = E(K(<<"d", "l">>), [t |-> "symlink", path |-> Rel(<<<<"f", "i", "x">>, <<"p", "l", "a", "i", "n">>>>)])
       /\ last.r.ret.entries[j].key = K(<<"f", "i", "x">>)
       /\ \E k, l \in 1..Len(last.r.ret.entries[j].val.entries) :
            /\ last.r.ret.entries[j].val.entries[k].key = K(<<"s", "y", "m">>)
            /\ \E m \in 1..Len(last.r.ret.entries[j].val.entries[k].val.entries) :
                 last.r.ret.entries[j].val.entries[k].val.entries[m]
                   = E(K(<<"u", "p">>), [t |-> "symlink", path |-> Rel(<<DotDot, DotDot, <<"R", "E", "A", "D", "M", "E">>>>)])
            /\ last.r.ret.entries[j].val.entries[l].key = K(<<"p", "l", "a", "i", "n">>)
            /\ \E m, n \in 1..Len(last.r.ret.entries[j].val.entries[l].val.entries) :
                 /\ last.r.ret.entries[j].val.entries[l].val.entries[m] = E(K(<<"a">>), Str(<<"x">>))
                 /\ last.r.ret.entries[j].val.entries[l].val.entries[n].key = K(<<"s", "u", "b">>)
                 /\ last.r.ret.entries[j].val.entries[l].val.entries[n].val.entries
                      = <<E(K(<<"b">>), Bytes(Utf8Encode(<<"y">>)))>>


\* C18: a snapshot of an existing directory with extras that resolves: the
\* keys of the mapping returned are the names in the directory and the
\* keys of extras, each once; a key of extras has the value extras gives
\* it, also when the directory has an entry of that name; every other key
\* has the value the same snapshot without extras gives it.
C18_ExtrasMerged ==
  (/\ last.op \in {"fromFileSystem", "fromFileSystemSync"}
   /\ last.options.extras /= <<>>
   /\ Stat(last.pre, FsPath(last.path)).kind = "dir"
   /\ last.r.err = "")
  => LET extras == last.options.extras[1].entries
         ret == last.r.ret.entries
         plain == IF last.op = "fromFileSystem"
                  THEN fromFileSystem(last.pre, last.path, [last.options EXCEPT !.extras = <<>>])
                  ELSE fromFileSystemSync(last.pre, last.path, [last.options EXCEPT !.extras = <<>>])
         names == {e.name : e \in {ReadDir(last.pre, FsPath(last.path)).ents[i] :
                                     i \in 1..Len(ReadDir(last.pre, FsPath(last.path)).ents)}}
     IN /\ plain.err = ""
        /\ {ret[i].key : i \in 1..Len(ret)}
             = {K(n) : n \in names} \cup {extras[i].key : i \in 1..Len(extras)}
        /\ \A i, j \in 1..Len(ret) : ret[i].key = ret[j].key => i = j
        /\ \A i \in 1..Len(extras) : \E j \in 1..Len(ret) : ret[j] = extras[i]
        /\ \A i \in 1..Len(plain.ret.entries) :
             (\A j \in 1..Len(extras) : extras[j].key /= plain.ret.entries[i].key)
             => \E j \in 1..Len(ret) : ret[j] = plain.ret.entries[i]

\* fix/plain, which holds a, e and sub, snapshotted with the extras
\* { a: "E", n: null }: a is "E", n is null, e and sub are as traversed
C18_Witness ==
  /\ last.op = "fromFileSystem"
  /\ last.path = Rel(<<<<"f", "i", "x">>, <<"p", "l", "a", "i", "n">>>>)
  /\ last.options.extras /= <<>>
  /\ last.options.getEncodingForFile = <<>>
  /\ last.r.err = ""
  /\ ReadFile(last.pre, FsPath(Rel(<<<<"f", "i", "x">>, <<"p", "l", "a", "i", "n">>, <<"a">>>>))).data = Utf8Encode(<<"x">>)
  /\ {last.r.ret.entries[i] : i \in 1..Len(last.r.ret.entries)}
       = {E(K(<<"a">>), Str(<<"E">>)), E(K(<<"n">>), Null),
          E(K(<<"e">>), DirFrom(<<>>, Rel(<<<<"f", "i", "x">>, <<"p", "l", "a", "i", "n">>, <<"e">>>>))),
          E(K(<<"s", "u", "b">>), DirFrom(<<E(K(<<"b">>), Str(<<"y">>))>>, Rel(<<<<"f", "i", "x">>, <<"p", "l", "a", "i", "n">>, <<"s", "u", "b">>>>)))}


\* C19: every symbolic link that createFileTree/createFileTreeSync creates
\* is created with the type "junction" exactly when its target, resolved
\* from the directory of the link, is a directory, and with "file"
\* otherwise.  (No call removes anything and every target of the mappings
\* is there before its link is made: what is a directory after the call
\* was one when the link was made.)
C19_TypeHintFromTarget ==
  last.op \in {"createFileTree", "createFileTreeSync"}
  => \A i \in 1..Len(last.r.ops) :
       (last.r.ops[i].op = "symlink" /\ last.r.ops[i].err = "")
       => /\ last.r.ops[i].type \in {"junction", "file"}
          /\ (last.r.ops[i].type = "junction")
               = (Stat(disk, resolve(dirname(Abs(last.r.ops[i].p)),
                                     last.r.ops[i].target).segs).kind = "dir")


\* C20: createFileTree leaves the mapping it is given as it was: after a
\* snapshot has been materialized the mapping is the snapshot, every
\* symlink marker with the path it had, and materializing it once more at
\* a root of the same depth makes, when both times resolve, the symlink
\* calls with the targets of the first time.
C20_MappingNotModified ==
  (last.op = "replay" /\ last.snap.err = "")
  => LET again == createFileTree(disk, <<>>,
                                 [last.root EXCEPT !.segs[1] = <<"z">>], last.r.files)
         targets(ops) == [i \in 1..Len(SelectSeq(ops, LAMBDA o : o.op = "symlink")) |->
                            SelectSeq(ops, LAMBDA o : o.op = "symlink")[i].target]
     IN /\ last.r.files = last.snap.ret
        /\ (last.r.err = "" /\ again.err = "")
             => targets(again.ops) = targets(last.r.ops)


\* C21: for an entry of the mapping that wraps a directory with children
\* in metadata whose mode has no write permission, at a path that was not
\* there: the first mkdir call for that path, when it succeeds, carries
\* that mode; nothing was attempted below the path before it; the first
\* call on a path below it afterwards fails with EACCES, is the last call
\* made and its error is the error of the whole call; the directory is on
\* the disk with that mode afterwards and holds nothing.
C21_ModeBeforeChildren ==
  last.op \in {"createFileTree", "createFileTreeSync"}
  => \A k \in 1..Len(last.files.entries) :
       LET val == last.files.entries[k].val
           p == resolve(resolve(Rel(<<>>), last.path), last.files.entries[k].key).segs
           ops == last.r.ops
           below(j) == Len(ops[j].p) > Len(p) /\ IsPrefix(p, ops[j].p)
       IN (/\ val.t = "meta"
           /\ val.content.t = "dir"
           /\ val.content.entries /= <<>>
           /\ val.meta.mode > 0
           /\ ~Writable(val.meta.mode)
           /\ p \notin DOMAIN last.pre.tree)
          => \A i \in 1..Len(ops) :
               (/\ ops[i].op = "mkdir"
                /\ ops[i].p = p
                /\ ops[i].err = ""
                /\ \A j \in 1..(i - 1) : ops[j].p /= p)
               => /\ ops[i].mode = val.meta.mode
                  /\ \A j \in 1..(i - 1) : ~below(j)
                  /\ \E j \in (i + 1)..Len(ops) : below(j)
                  /\ \A j \in (i + 1)..Len(ops) :
                       below(j) => /\ ops[j].err = "EACCES"
                                   /\ j = Len(ops)
                                   /\ last.r.err = "EACCES"
                  /\ p \in DOMAIN disk.tree
                  /\ disk.tree[p] = [kind |-> "dir", mode |-> val.meta.mode]
                  /\ \A q \in DOMAIN disk.tree : ~(Len(q) > Len(p) /\ IsPrefix(p, q))

\* { a: "1", ro: metadata({ f: "x" }, { mode: 0o555 }), z: "2" } at the new
\* root t has failed with EACCES at the write of ro/f: ro is there with
\* mode 0o555 and is empty, a was written and z was not
C21_Witness ==
  /\ last.op = "createFileTree"
  /\ CWD \o <<<<"t">>>> \notin DOMAIN last.pre.tree
  /\ last.r.err = "EACCES"
  /\ last.r.ops[Len(last.r.ops)].op = "writeFile"
  /\ last.r.ops[Len(last.r.ops)].p = CWD \o <<<<"t">>, <<"r", "o">>, <<"f">>>>
  /\ disk.tree[CWD \o <<<<"t">>, <<"r", "o">>>>] = [kind |-> "dir", mode |-> ModeRX]
  /\ CWD \o <<<<"t">>, <<"r", "o">>, <<"f">>>> \notin DOMAIN disk.tree
  /\ CWD \o <<<<"t">>, <<"a">>>> \in DOMAIN disk.tree
  /\ CWD \o <<<<"t">>, <<"z">>>> \notin DOMAIN disk.tree


\* C22: no mkdir call of createFileTree/createFileTreeSync fails for a
\* path that was a directory before the call, and after a call that
\* resolves every directory entry whose metadata carries a mode is on the
\* disk with that mode, also when an earlier entry had the directory made
\* as its parent.
C22_DirectoryModeApplied ==
  last.op \in {"createFileTree", "createFileTreeSync"}
  => /\ \A i \in 1..Len(last.r.ops) :
          (/\ last.r.ops[i].op = "mkdir"
           /\ last.r.ops[i].p \in DOMAIN last.pre.tree
           /\ last.pre.tree[last.r.ops[i].p].kind = "dir")
          => last.r.ops[i].err = ""
     /\ last.r.err = ""
        => \A k \in 1..Len(last.files.entries) :
             LET val == last.files.entries[k].val
                 p == resolve(resolve(Rel(<<>>), last.path), last.files.entries[k].key).segs
             IN (val.t = "meta" /\ val.content.t = "dir" /\ val.meta.mode /= NoMode)
                => /\ p \in DOMAIN disk.tree
                   /\ disk.tree[p] = [kind |-> "dir", mode |-> val.meta.mode]


C24_CallCounts ==
  LET RECURSIVE count(_, _, _)
      unwrapped(v) == IF v.t = "meta" THEN v.content ELSE v
      kind(v) == IF unwrapped(v).t \in {"link", "symlink", "dir"} THEN unwrapped(v).t
                 ELSE "primitive"
      count(entries, i, what) ==
        IF i > Len(entries) THEN 0
        ELSE (IF kind(entries[i].val) = what THEN 1 ELSE 0)
             + (IF kind(entries[i].val) = "dir"
                THEN count(unwrapped(entries[i].val).entries, 1, what) ELSE 0)
             + count(entries, i + 1, what)
      made(op) == Len(SelectSeq(last.r.ops, LAMBDA o : o.op = op))
  IN (last.op \in {"createFileTree", "createFileTreeSync"} /\ last.r.err = "")
     => /\ made("mkdir") = count(last.files.entries, 1, "primitive")
                              + count(last.files.entries, 1, "dir")
        /\ made("writeFile") = count(last.files.entries, 1, "primitive")
        /\ made("link") = count(last.files.entries, 1, "link")
        /\ made("symlink") = count(last.files.entries, 1, "symlink")

\* { f1: "a", sub: { l: link("../f1"), g: "b" } } has been created: three
\* mkdir calls, two writeFile calls and one link call
C24_Witness ==
  /\ last.op = "createFileTree"
  /\ last.r.err = ""
  /\ \E i \in 1..Len(last.files.entries) :
       /\ last.files.entries[i].key = K(<<"s", "u", "b">>)
       /\ Len(last.files.entries[i].val.entries) = 2
  /\ Len(SelectSeq(last.r.ops, LAMBDA o : o.op = "mkdir")) = 3
  /\ Len(SelectSeq(last.r.ops, LAMBDA o : o.op = "writeFile")) = 2
  /\ Len(SelectSeq(last.r.ops, LAMBDA o : o.op = "link")) = 1
  /\ Len(last.r.ops) = 6


(***************************************************************************)
(* Properties of the testdir fixture (SpecWith)                            *)
(***************************************************************************)
\* C25: the options a testdir call of a test's context passes on are those
\* of the call, then those the running test was registered with, then the
\* test's name as dirname: the options another test was registered with
\* have no part in them.
C25_OptionsOfOwnTest ==
  last.op = "context.testdir"
  => \A i \in 1..Len(collected) :
       collected[i].task = last.test[1]
       => LET own == collected[i].options
              given(o) == o.dirname /= <<>> /\ o.dirname[1] /= Rel(<<>>)
          IN /\ last.effective.dirname
                  = (IF given(last.options) THEN last.options.dirname
                     ELSE IF given(own) THEN own.dirname
                     ELSE <<K(last.test[1].name)>>)
             /\ last.effective.cleanup
                  = (IF last.options.cleanup /= <<>> THEN last.options.cleanup ELSE own.cleanup)
             /\ last.effective.allowOutside
                  = (IF last.options.allowOutside /= <<>> THEN last.options.allowOutside
                     ELSE own.allowOutside)


C27_CreatedBelowRoot ==
  last.op \in {"createFileTree", "createFileTreeSync"}
  => LET root == resolve(Rel(<<>>), last.path)
     IN \A p \in DOMAIN last.r.disk.tree :
          p \notin DOMAIN last.pre.tree
          => /\ Len(p) >= Len(root.segs)
             /\ SubSeq(p, 1, Len(root.segs)) = root.segs


(***************************************************************************)
(* Properties of a testdir call that fails while it creates the tree       *)
(* (Spec)                                                                  *)
(***************************************************************************)
\* C28 as stated: a testdir/testdirSync call whose createFileTree throws has
\* registered no callback and has left on the disk what it created before
\* the failure (the file g of { g: "a", l: link("nope") }); when the test
\* has finished, every such file g is still on the disk.
C28_PartialTreeKept ==
  /\ (last.op \in {"testdir", "testdirSync"} /\ last.r.ops /= <<>> /\ last.r.err /= "")
     => /\ hooks = last.preHooks
        /\ last.r.ret = <<>>
        /\ \A i \in 1..Len(last.files.entries) :
             last.files.entries[i].val.t = "string"
             => Stat(disk, resolve(resolve(Rel(<<>>), last.r.path[1]),
                                   last.files.entries[i].key).segs).kind = "file"
  /\ last.op = "finishTest"
     => \A q \in DOMAIN last.pre.tree :
          (q /= <<>> /\ q[Len(q)] = <<"g">>) => q \in DOMAIN disk.tree

\* C28: a testdir/testdirSync call whose createFileTree throws has
\* registered no callback and has left on the disk what it created before
\* the failure; when the test has finished, every such file g is still on
\* the disk unless it is below the directory of a callback that another
\* call registered.
C28_PartialTreeKeptUnlessShared ==
  /\ (last.op \in {"testdir", "testdirSync"} /\ last.r.ops /= <<>> /\ last.r.err /= "")
     => /\ hooks = last.preHooks
        /\ last.r.ret = <<>>
        /\ \A i \in 1..Len(last.files.entries) :
             last.files.entries[i].val.t = "string"
             => Stat(disk, resolve(resolve(Rel(<<>>), last.r.path[1]),
                                   last.files.entries[i].key).segs).kind = "file"
  /\ last.op = "finishTest"
     => \A q \in DOMAIN last.pre.tree :
          (/\ q /= <<>>
           /\ q[Len(q)] = <<"g">>
           /\ \A i \in 1..Len(last.ran) :
                ~IsPrefix(resolve(Rel(<<>>), last.ran[i].path).segs, q))
          => /\ q \in DOMAIN disk.tree
             /\ ReadFile(disk, q) = [err |-> "", data |-> Utf8Encode(<<"a">>)]

\* a test has finished, no callback was there to run, and the file g that a
\* failed call left below the base directory is there
C28_Witness ==
  /\ last.op = "finishTest"
  /\ last.ran = <<>>
  /\ \E q \in DOMAIN disk.tree :
       /\ IsPrefix(Append(CWD, BASE_DIR), q)
       /\ q[Len(q)] = <<"g">>
       /\ ReadFile(disk, q) = [err |-> "", data |-> Utf8Encode(<<"a">>)]
       /\ \A p \in DOMAIN disk.tree : p = <<>> \/ p[Len(p)] /= <<"l">>


(***************************************************************************)
(* Properties of the callbacks testdir registers (Spec)                    *)
(***************************************************************************)
\* C29: a testdir/testdirSync call that succeeds with cleanup enabled adds
\* one callback to those registered before it: onTestFinished when there is
\* a current test, afterAll when there is none but a current suite, for the
\* path the call returned. When the runner has called the callbacks, the
\* paths they were registered for are gone and every other path of the disk
\* is as it was.
C29_OneCallbackForReturnedPath ==
  /\ (/\ last.op \in {"testdir", "testdirSync"}
      /\ last.r.err = ""
      /\ last.options.cleanup /= <<FALSE>>)
     => /\ Len(hooks) = Len(last.preHooks) + 1
        /\ SubSeq(hooks, 1, Len(last.preHooks)) = last.preHooks
        /\ hooks[Len(hooks)].path = last.r.ret[1]
        /\ hooks[Len(hooks)].hook
             = (IF last.test /= <<>> THEN "onTestFinished" ELSE "afterAll")
        /\ last.test = <<>> => last.suite /= <<>>
  /\ last.op \in {"finishTest", "leaveSuite"}
     => /\ \A i \in 1..Len(last.ran) :
             /\ last.ran[i].hook = (IF last.op = "finishTest" THEN "onTestFinished" ELSE "afterAll")
             /\ last.errs[i] = ""
             /\ \A q \in DOMAIN disk.tree :
                  ~IsPrefix(resolve(Rel(<<>>), last.ran[i].path).segs, q)
        /\ \A q \in DOMAIN last.pre.tree :
             (\A i \in 1..Len(last.ran) :
                ~IsPrefix(resolve(Rel(<<>>), last.ran[i].path).segs, q))
             => q \in DOMAIN disk.tree /\ disk.tree[q] = last.pre.tree[q]

\* the callback of a call made inside a test has run when the test finished
\* and removed the directory, which was there before
C29_Witness ==
  /\ last.op = "finishTest"
  /\ Len(last.ran) = 1
  /\ resolve(Rel(<<>>), last.ran[1].path).segs \in DOMAIN last.pre.tree
  /\ resolve(Rel(<<>>), last.ran[1].path).segs \notin DOMAIN disk.tree
  /\ Append(CWD, BASE_DIR) \in DOMAIN disk.tree


(***************************************************************************)
(* Properties of the directories a snapshot reads (SpecSnap)               *)
(***************************************************************************)
\* C30: fromFileSystem and fromFileSystemSync list the directory they are
\* given and, below it, directories that are no symbolic links and are
\* reached through none; no directory is listed twice, and a call that
\* returns without an error has listed every such directory once. A
\* symbolic link to a directory, also one to a directory above it, is
\* recorded as a marker (followLinks true) or read as a file, which fails
\* (followLinks false).
C30_NoDescentThroughLinks ==
  (last.op \in {"fromFileSystem", "fromFileSystemSync"} /\ isDirectory(last.pre, last.path))
  => LET tree == last.pre.tree
         root == FsPath(last.path)
         real == RealPath(tree, root, TRUE).p
         lists == SelectSeq(last.r.ops, LAMBDA o : o.op = "readdir")
         below(o) == SubSeq(o.p, Len(root) + 1, Len(o.p))
         follow == IF last.options.followLinks = <<>> THEN TRUE
                   ELSE last.options.followLinks[1]
     IN /\ lists /= <<>>
        /\ lists[1].p = root
        /\ Len(last.r.ops) <= 1 + Cardinality({q \in DOMAIN tree : IsPrefix(real, q)})
        /\ \A i \in 1..Len(lists) :
             /\ IsPrefix(root, lists[i].p)
             /\ real \o below(lists[i]) \in DOMAIN tree
             /\ tree[real \o below(lists[i])].kind = "dir"
             /\ \A j \in 1..Len(lists) : lists[j].p = lists[i].p => j = i
        /\ last.r.err = ""
             => {real \o below(lists[i]) : i \in 1..Len(lists)}
                  = {q \in DOMAIN tree : IsPrefix(real, q) /\ tree[q].kind = "dir"}
        /\ \A q \in DOMAIN tree :
             (/\ IsPrefix(real, q) /\ q /= real
              /\ tree[q].kind = "symlink"
              /\ Stat(last.pre, q).kind = "dir"
              /\ \E i \in 1..Len(lists) : real \o below(lists[i]) = SubSeq(q, 1, Len(q) - 1))
             => \/ last.r.err /= ""
                \/ /\ follow
                   /\ \A o \in {last.r.ops[i] : i \in 1..Len(last.r.ops)} :
                        o.op = "readdir" => ~IsPrefix(root \o SubSeq(q, Len(real) + 1, Len(q)), o.p)
        /\ (~follow /\ \E q \in DOMAIN tree :
                         /\ Len(q) = Len(real) + 1 /\ IsPrefix(real, q)
                         /\ tree[q].kind = "symlink" /\ Stat(last.pre, q).kind = "dir")
             => last.r.err = "EISDIR"

\* the directory fix, which holds the link back -> .. to its parent, was
\* snapshotted without an error: back is a marker, and fix and the four
\* directories below it were listed
C30_Witness ==
  /\ last.op \in {"fromFileSystem", "fromFileSystemSync"}
  /\ last.path = K(<<"f", "i", "x">>)
  /\ last.r.err = ""
  /\ Len(SelectSeq(last.r.ops, LAMBDA o : o.op = "readdir")) = 5
  /\ \E i \in 1..Len(last.r.ret.entries) :
       /\ last.r.ret.entries[i].key = K(<<"b", "a", "c", "k">>)
       /\ last.r.ret.entries[i].val = symlink(Rel(<<DotDot>>))

====
